---- MODULE Spec2Model ----
(***************************************************************************)
(* Cloud Run External Metrics Autoscaling (CREMA).                         *)
(*                                                                         *)
(* Nine specifications over disjoint groups of variables:                  *)
(*   SpecStab      the ScalingStabilizer of one workload, driven through   *)
(*                 its two entry points: any query, and a mark after the   *)
(*                 query it follows, as Scaler.scale calls them            *)
(*   Spec          Scaler.scale (Java): read, recommend, stabilize, clamp, *)
(*                 update, mark                                            *)
(*   SpecProvider  Orchestrator.RefreshMetrics with MakeBuilders and       *)
(*                 StateProvider.GetScaledObjectState (Go)                 *)
(*   SpecServer    Server.Start: the polling goroutine and the HTTP        *)
(*                 handler goroutines (Go)                                 *)
(*   SpecScenario  the ScalingStabilizer driven with the counts and times  *)
(*                 of the ScalingStabilizerTest scenarios                  *)
(*   SpecManager   ScalersManager.scale: one task per entry of a request   *)
(*                 (Java)                                                  *)
(*   SpecServerLive  SpecServer under the fairness of its goroutines, for  *)
(*                 the liveness of the polling loop and of Start           *)
(*   SpecValidate  config.ValidateConfig applied to a configuration (Go)   *)
(*   SpecConfig    a scaled object from the unmarshalled configuration,    *)
(*                 through applyDefaults, to its request entry (Go)        *)
(*                                                                         *)
(* ScalingStabilizer.java is not among the sources; its operators below    *)
(* follow section 4.7 of the design text, with the points the design text  *)
(* leaves open or states against ScalingStabilizerTest settled by the      *)
(* tests (each such point is marked where it is used).                     *)
(***************************************************************************)
EXTENDS Integers, Sequences, FiniteSets, TLC

\* ------------------------------------------------------------------ bounds

\* instance counts and recommendations given as inputs range over 0..MaxInst
MaxInst == 2
\* number of queries and marks made on one stabilizer in SpecStab; each is
\* made at most one second after the one before, so it bounds the clock too
MaxOps == 2
\* number of Scaler.scale calls made on one Scaler in Spec
MaxCycles == 2
\* number of HTTP requests the server receives in SpecServer
MaxRequests == 2
\* number of entries of the scale request in SpecManager
MaxEntries == 3
\* number of calls made on the stabilizer in SpecScenario
MaxScenarioOps == 5
\* the latest time, in seconds, of a call in SpecScenario
MaxScenarioTime == 301

\* ----------------------------------------------------------------- helpers

Min2(a, b) == IF a <= b THEN a ELSE b

Max2(a, b) == IF a >= b THEN a ELSE b

SetMax(S) == CHOOSE x \in S : \A y \in S : y <= x

SetMin(S) == CHOOSE x \in S : \A y \in S : x <= y

\* ceil(a / b) for a >= 0, b > 0
CeilDiv(a, b) == (a + b - 1) \div b

\* ------------------------------------------------- scaling behaviour (proto)

Policy(kind, value, period) == [kind |-> kind, value |-> value, period |-> period]

Rules(window, policies, select) ==
    [window |-> window, policies |-> policies, select |-> select]

Behavior(up, down) == [up |-> up, down |-> down]

\* Behavior.getDefaultInstance(): no window, no policy, select unset
NoRules == Rules(0, <<>>, "Unset")

WindowRules == Rules(1, <<>>, "Unset")

PercentRules == Rules(0, <<Policy("Percent", 50, 2)>>, "Unset")

TwoMaxRules ==
    Rules(0, <<Policy("Instances", 2, 1), Policy("Percent", 50, 2)>>, "Max")

TwoMinRules ==
    Rules(1, <<Policy("Instances", 2, 1), Policy("Percent", 50, 2)>>, "Min")

TwoUnsetRules ==
    Rules(0, <<Policy("Instances", 2, 1), Policy("Percent", 50, 2)>>, "Unset")

DisabledRules == Rules(1, <<Policy("Percent", 50, 2)>>, "Disabled")

WindowPercentRules == Rules(1, <<Policy("Percent", 50, 1)>>, "Unset")

\* ScalingStabilizerTest, scaleDownPercentPolicy: one Percent(50, 60 s)
\* scale-down policy, no window
PercentScenario ==
    Behavior(NoRules, Rules(0, <<Policy("Percent", 50, 60)>>, "Unset"))

\* ScalingStabilizerTest, scaleDownStabilizationOnly: a scale-down window of
\* 300 s and nothing else
WindowScenario == Behavior(NoRules, Rules(300, <<>>, "Unset"))

ScenarioBehaviors == { PercentScenario, WindowScenario }

\* the behaviours the checks draw from
BehaviorSet ==
    { Behavior(NoRules, NoRules),
      Behavior(WindowRules, WindowRules),
      Behavior(PercentRules, PercentRules),
      Behavior(TwoMaxRules, TwoMaxRules),
      Behavior(TwoMinRules, TwoMinRules),
      Behavior(TwoUnsetRules, TwoUnsetRules),
      Behavior(DisabledRules, WindowPercentRules),
      Behavior(WindowPercentRules, DisabledRules) }

InstVals == 0 .. MaxInst

\* the recommendations asked of a stabilizer: they may exceed every count
\* the workload has had
UnboundedVals == 0 .. MaxInst + 1

\* scaling.toPbSelectPolicy: the select policy sent for a KEDA select policy
\* ("nil" when the field is absent)
toPbSelectPolicy(kedaSelectPolicy) ==
    IF kedaSelectPolicy = "Min" THEN "Min"
    ELSE IF kedaSelectPolicy = "Disabled" THEN "Disabled"
    ELSE "Max"

\* ------------------------------------------------------- ScalingStabilizer

\* one retained observation: time, instance count before, recommended count;
\* src tells which call stored it ("init", "query" or "mark")
Entry(t, prev, rec, src) == [t |-> t, prev |-> prev, rec |-> rec, src |-> src]

\* a stabilizer that starts without an observation
emptyStabilizer(now, currentInstanceCount) == <<>>

\* new ScalingStabilizer(currentInstanceCount): the stabilizer starts with the
\* count it was created at as its first observation (ScalingStabilizerTest:
\* a stabilizer created at 100 holds a scale-down at 100 for the window)
newStabilizer(now, currentInstanceCount) ==
    << Entry(now, currentInstanceCount, currentInstanceCount, "init") >>

PolicyPeriods(rules) == { rules.policies[i].period : i \in DOMAIN rules.policies }

\* retention bound: the longest of the two windows and every policy period
retention(behavior) ==
    SetMax({behavior.up.window, behavior.down.window}
           \cup PolicyPeriods(behavior.up) \cup PolicyPeriods(behavior.down))

evict(entries, behavior, now) ==
    SelectSeq(entries, LAMBDA e : e.t >= now - retention(behavior))

\* a period closed at its far end
inPeriodClosed(entries, now, period) ==
    { i \in DOMAIN entries : entries[i].t >= now - period }

\* entries inside a policy period. The period is open at its far end:
\* ScalingStabilizerTest marks (now, 100, 50) under Percent(50, 60 s) and gets
\* 25 at now+60, so an event exactly one period old no longer counts.
inPeriod(entries, now, period) ==
    { i \in DOMAIN entries : entries[i].t > now - period }

\* entries inside a stabilization window (t >= now - W)
inWindow(entries, now, window) ==
    { i \in DOMAIN entries : entries[i].t >= now - window }

\* a policy that forgets the history and starts from the current count
candidateFromCurrent(dir, policy, entries, now, current) ==
    IF dir = "up"
    THEN IF policy.kind = "Percent"
         THEN CeilDiv(current * (100 + policy.value), 100)
         ELSE current + policy.value
    ELSE IF policy.kind = "Percent"
         THEN (current * (100 - policy.value)) \div 100
         ELSE current - policy.value

\* the count one policy permits. The base is the count at the start of the
\* period: the smallest prev for scale-up, the largest for scale-down
\* (ScalingStabilizerTest: after mark(now,100,150), Percent(50) permits 150 at
\* now+59, not 225); without an entry in the period, the current count.
policyCandidate(dir, policy, entries, now, current) ==
    LET prevs == { entries[i].prev : i \in inPeriod(entries, now, policy.period) }
        base  == IF prevs = {} THEN current
                 ELSE IF dir = "up" THEN SetMin(prevs) ELSE SetMax(prevs)
    IN  IF dir = "up"
        THEN IF policy.kind = "Percent"
             THEN CeilDiv(base * (100 + policy.value), 100)
             ELSE base + policy.value
        ELSE IF policy.kind = "Percent"
             THEN (base * (100 - policy.value)) \div 100
             ELSE base - policy.value

\* a rate bound that takes the most permissive candidate whatever is selected
mostPermissive(dir, rules, entries, now, current, unbounded) ==
    LET cands == { policyCandidate(dir, rules.policies[i], entries, now, current)
                       : i \in DOMAIN rules.policies }
    IN  IF cands = {}
        THEN IF dir = "up" THEN Max2(unbounded, current) ELSE Min2(unbounded, current)
        ELSE IF dir = "up" THEN SetMax(cands) ELSE SetMin(cands)

\* the policies combined by the select policy; "Max" (and unset) is the most
\* permissive candidate, "Min" the least permissive. No policy: no rate limit.
rateBound(dir, rules, entries, now, current, unbounded) ==
    LET cands == { policyCandidate(dir, rules.policies[i], entries, now, current)
                       : i \in DOMAIN rules.policies }
    IN  IF cands = {}
        THEN IF dir = "up" THEN Max2(unbounded, current) ELSE Min2(unbounded, current)
        ELSE IF dir = "up"
             THEN IF rules.select = "Min" THEN SetMin(cands) ELSE SetMax(cands)
             ELSE IF rules.select = "Min" THEN SetMax(cands) ELSE SetMin(cands)

\* a window that holds nothing back
windowOff(dir, rules, entries, now, current, unbounded) == unbounded

\* the least aggressive recommendation observed inside the window
windowBound(dir, rules, entries, now, current, unbounded) ==
    LET recs == { entries[i].rec : i \in inWindow(entries, now, rules.window) }
    IN  IF rules.window = 0 THEN unbounded
        ELSE IF recs = {} THEN current
        ELSE IF dir = "up" THEN SetMin(recs) ELSE SetMax(recs)

\* a guard that lets the bound through
noGuard(current, bound) == bound

\* the scale-up form of the guard of the design text's "Combine" step:
\* the result never crosses current against the requested direction
guardUp(current, bound) == Max2(current, bound)

guardDown(current, bound) == Min2(current, bound)

scaleUpBound(rules, entries, now, current, unbounded) ==
    IF rules.select = "Disabled" THEN current
    ELSE guardUp(current,
           Min2(Max2(unbounded, current),
                Min2(rateBound("up", rules, entries, now, current, unbounded),
                     windowBound("up", rules, entries, now, current, unbounded))))

\* a scale-down bound that does not look at Disabled
unfrozenDownBound(rules, entries, now, current, unbounded) ==
    guardDown(current,
        Max2(Min2(unbounded, current),
             Max2(rateBound("down", rules, entries, now, current, unbounded),
                  windowBound("down", rules, entries, now, current, unbounded))))

scaleDownBound(rules, entries, now, current, unbounded) ==
    IF rules.select = "Disabled" THEN current
    ELSE guardDown(current,
           Max2(Min2(unbounded, current),
                Max2(rateBound("down", rules, entries, now, current, unbounded),
                     windowBound("down", rules, entries, now, current, unbounded))))

\* a stabilizer without the shortcut
neverFromZero(current, unbounded) == FALSE

\* scale-up from zero is never stabilized
scaleUpFromZero(current, unbounded) == current = 0 /\ unbounded > 0

\* the history a query leaves behind: the query stores its own observation
\* (ScalingStabilizerTest, decreasingWindowSize: with no mark in between, the
\* 90 asked for at now+60 is the bound of the query at now+119) and evicts
\* what is older than the retention bound
historyAfterQuery(entries, behavior, now, current, unbounded) ==
    IF scaleUpFromZero(current, unbounded) THEN entries
    ELSE evict(Append(entries, Entry(now, current, unbounded, "query")), behavior, now)

\* ScalingStabilizer.getStabilizedRecommendation
getStabilizedRecommendation(entries, behavior, now, current, unbounded) ==
    LET h == historyAfterQuery(entries, behavior, now, current, unbounded)
    IN  IF scaleUpFromZero(current, unbounded) THEN unbounded
        ELSE IF unbounded > current
             THEN scaleUpBound(behavior.up, h, now, current, unbounded)
        ELSE IF unbounded < current
             THEN scaleDownBound(behavior.down, h, now, current, unbounded)
        ELSE current

\* ScalingStabilizer.markScaleEvent
markScaleEvent(entries, behavior, now, prev, new) ==
    evict(Append(entries, Entry(now, prev, new, "mark")), behavior, now)

\* ------------------------------------------------------------------ Scaler

\* a Metric of the scale request; has* tell whether the optional field is set
Metric(value, hasTargetValue, targetValue, hasTargetAverageValue, targetAverageValue) ==
    [value |-> value,
     hasTargetValue |-> hasTargetValue, targetValue |-> targetValue,
     hasTargetAverageValue |-> hasTargetAverageValue,
     targetAverageValue |-> targetAverageValue]

\* Advanced.ScalerConfig of the scaled object
ScalerConfig(minInstances, maxInstances, behavior) ==
    [minInstances |-> minInstances, maxInstances |-> maxInstances,
     behavior |-> behavior]

\* TargetValueScaling.makeRecommendation
TargetValueScaling(currentValue, targetValue, currentInstanceCount) ==
    IF targetValue = 0 THEN currentInstanceCount
    ELSE CeilDiv(Max2(currentInstanceCount, 1) * currentValue, targetValue)

\* TargetAverageValueScaling.makeRecommendation
TargetAverageValueScaling(currentValue, targetValue, currentInstanceCount) ==
    IF targetValue = 0 THEN currentInstanceCount
    ELSE CeilDiv(currentValue, targetValue)

\* a loop that looks at target_value first
valueFirst(metric) ==
    IF metric.hasTargetValue /\ metric.targetValue > 0 THEN "Value"
    ELSE IF metric.hasTargetAverageValue /\ metric.targetAverageValue > 0
         THEN "AverageValue"
    ELSE "skip"

\* the branch of the loop of Scaler.scale a metric takes
triggerKind(metric) ==
    IF metric.hasTargetAverageValue /\ metric.targetAverageValue > 0 THEN "AverageValue"
    ELSE IF metric.hasTargetValue /\ metric.targetValue > 0 THEN "Value"
    ELSE "skip"

recommendation(metric, currentInstanceCount) ==
    IF triggerKind(metric) = "AverageValue"
    THEN TargetAverageValueScaling(metric.value, metric.targetAverageValue,
                                   currentInstanceCount)
    ELSE TargetValueScaling(metric.value, metric.targetValue, currentInstanceCount)

\* a loop that keeps the recommendation of the last metric it did not skip
RECURSIVE lastRecommendation(_, _)
lastRecommendation(metrics, currentInstanceCount) ==
    IF metrics = <<>> THEN 0
    ELSE IF triggerKind(metrics[Len(metrics)]) # "skip"
    THEN recommendation(metrics[Len(metrics)], currentInstanceCount)
    ELSE lastRecommendation(SubSeq(metrics, 1, Len(metrics) - 1), currentInstanceCount)

\* the loop of Scaler.scale: the largest recommendation of the metrics that
\* are not skipped, starting from 0
unboundedRecommendation(metrics, currentInstanceCount) ==
    SetMax({0} \cup { recommendation(metrics[i], currentInstanceCount) :
                        i \in { j \in DOMAIN metrics : triggerKind(metrics[j]) # "skip" } })

\* a scale that takes any metric for a trigger
anyMetric(metrics) == metrics # <<>>

hasValidTrigger(metrics) ==
    \E i \in DOMAIN metrics : triggerKind(metrics[i]) # "skip"

\* java.lang.Math.clamp(long, int, int) for min <= max (it throws otherwise)
clamp(value, min, max) == Min2(max, Max2(value, min))

\* scalingStabilizers.computeIfAbsent(name, k -> new ScalingStabilizer(current));
\* an absent stabilizer is the empty sequence
computeIfAbsent(stabilizer, now, currentInstanceCount) ==
    IF stabilizer = <<>> THEN newStabilizer(now, currentInstanceCount) ELSE stabilizer

\* a bounded recommendation that skips the clamp
unclampedRecommendation(stabilizer, scalerConfig, now, currentInstanceCount, unbounded) ==
    getStabilizedRecommendation(stabilizer, scalerConfig.behavior, now,
                                currentInstanceCount, unbounded)

\* Scaler.getBoundedRecommendation
getBoundedRecommendation(stabilizer, scalerConfig, now, currentInstanceCount, unbounded) ==
    clamp(getStabilizedRecommendation(stabilizer, scalerConfig.behavior, now,
                                      currentInstanceCount, unbounded),
          scalerConfig.minInstances, scalerConfig.maxInstances)

\* an update on every cycle
alwaysUpdate(newInstanceCount, currentInstanceCount) == TRUE

\* the test of Scaler.scale that guards the update and the mark
needsUpdate(newInstanceCount, currentInstanceCount) ==
    newInstanceCount # currentInstanceCount

\* an update that calls nothing
noCall(useMinInstances, workloadType) == "none"

\* the call Scaler.updateInstanceCount makes on the Cloud Run client
updateInstanceCount(useMinInstances, workloadType) ==
    IF useMinInstances
    THEN IF workloadType = "SERVICE" THEN "updateServiceMinInstances"
         ELSE "IllegalArgumentException"
    ELSE IF workloadType = "SERVICE" THEN "updateServiceManualInstances"
         ELSE "updateWorkerPoolManualInstances"

NoUpdate == [call |-> "none", count |-> 0, ok |-> FALSE]

Update(call, count, ok) == [call |-> call, count |-> count, ok |-> ok]

\* ------------------------------------------------------- metric provider

\* a scaled object of the CREMA config: whether scaleTargetRef is set, its
\* name, and the number of its triggers
ScaledObject(hasRef, name, triggers) ==
    [hasRef |-> hasRef, name |-> name, triggers |-> triggers]

\* cremaConfig.Spec.ScaledObjects of the checks: three workloads, and one
\* entry without a scale target
cremaConfig ==
    << ScaledObject(TRUE, "a", 2),
       ScaledObject(FALSE, "", 1),
       ScaledObject(TRUE, "b", 1),
       ScaledObject(TRUE, "c", 2) >>

\* scaling.ToKedaScaledObjects: the entries with a named scale target, in order
ToKedaScaledObjects(config) ==
    SelectSeq(config, LAMBDA o : o.hasRef /\ o.name # "")

kedaScaledObjects == ToKedaScaledObjects(cremaConfig)

ObjectNames == { kedaScaledObjects[i].name : i \in DOMAIN kedaScaledObjects }

\* the triggers of a scaled object, numbered from 1
Triggers(obj) == 1 .. obj.triggers

ScalerKeys == { <<kedaScaledObjects[i].name, t>> :
                  i \in DOMAIN kedaScaledObjects, t \in 1 .. 2 }

\* the members of a set of numbers as an increasing sequence
RECURSIVE SortedSeq(_)
SortedSeq(S) ==
    IF S = {} THEN <<>> ELSE << SetMin(S) >> \o SortedSeq(S \ {SetMin(S)})

\* what getScalerState sends for one scaler:
\*   "ok"        a metric and a supported target, from an active scaler
\*   "idle"      a metric and a supported target, from a scaler that is not active
\*   "err"       GetMetricsAndActivity fails
\*   "badtarget" the target type is neither AverageValue nor Value (the
\*               scaler is taken to be active)
\*   "nospec"    GetMetricSpecForScaling is empty: the zero scalerChanResult
\* (a scaler is taken to return at least one metric when it returns no error)
ScalerOutcomes == {"ok", "idle", "err", "badtarget", "nospec"}

getScalerState(triggerIndex, outcome) ==
    IF outcome = "nospec"
    THEN [triggerIndex |-> 0, failed |-> FALSE, isActive |-> FALSE,
          reading |-> [trigger |-> 0, blank |-> TRUE]]
    ELSE [triggerIndex |-> triggerIndex,
          failed       |-> outcome \in {"err", "badtarget"},
          isActive     |-> outcome \in {"ok", "badtarget"},
          reading      |-> IF outcome \in {"ok", "idle"}
                           THEN [trigger |-> triggerIndex, blank |-> FALSE]
                           ELSE [trigger |-> 0, blank |-> TRUE]]

\* the range loop of GetScaledObjectState: a failed result is logged and left out
collect(readings, result) ==
    IF result.failed THEN readings ELSE Append(readings, result.reading)

\* a results channel with room for all the builders but one
oneShort(builderCount) == builderCount - 1

\* the capacity of resultsChan: one place for each builder
chanCapacity(builderCount) == builderCount

\* a flag that follows the result received last
lastActivity(active, result) ==
    IF result.failed THEN active ELSE result.isActive

\* the flag of the range loop after one more result
noteActivity(active, result) ==
    IF result.failed THEN active ELSE active \/ result.isActive

\* a state provider that never fails
neverFails(readings, received) == FALSE

\* a state provider that gives up when any scaler failed
failsOnAnyError(readings, received) == Len(readings) < received

\* GetScaledObjectState fails only without any reading
getScaledObjectStateFails(readings, received) == Len(readings) = 0

\* a loop that stops at the first scaled object that fails
abortOnError(index, count) == count + 1

\* RefreshMetrics logs the error of a scaled object and continues with the next
continueOnError(index, count) == index + 1

\* the entry RefreshMetrics appends for a scaled object (toMetrics keeps the
\* readings one to one, in order)
ObjectMetrics(obj, readings) == [name |-> obj.name, metrics |-> readings]

\* how the factory of one trigger ends in MakeBuilders:
\*   "built"      a scaler and its config
\*   "authFailed" ResolveAuthRefAndPodIdentity fails
\*   "noScaler"   buildScaler fails and returns no scaler, as it does for a
\*                trigger type it does not know
\*   "closed"     buildScaler fails and returns a scaler, which is closed
BuildFates == {"built", "authFailed", "noScaler", "closed"}

\* the factory returns an error
factoryFails(fate) == fate # "built"

\* MakeBuilders that fails as soon as one trigger could not be built
failsWhenIncomplete(built, triggers) == built < triggers

\* MakeBuilders returns an error: none of the triggers was built
makeBuildersFails(built, triggers) == built = 0

\* a cycle that calls Scale even with nothing to send
alwaysSend(metrics) == TRUE

\* RefreshMetrics calls Scale: some scaled object produced readings
hasObjectsToScale(metrics) == Len(metrics) > 0

\* the errors scalerClient.Scale returns: the call was cancelled, or it
\* failed for another reason
ScaleErrors == {"Canceled", "Unavailable"}

\* a cycle that logs the error of Scale and returns nil
swallowsError(err) == "nil"

\* what RefreshMetrics returns after scalerClient.Scale returned err
refreshReturn(err) == err

\* ------------------------------------------------------------- variables

VARIABLES
    sEntries,     \* SpecStab: the stabilizer's retained observations
    sNow,         \* SpecStab: the time of the latest call
    sBehavior,    \* SpecStab: the behaviour the calls are made with
    sRes,         \* SpecStab: the latest query: its arguments and its result
    sOps,         \* SpecStab: calls made so far
    sLog,         \* SpecScenario: the calls made on the stabilizer, in order
    workloadInfo,         \* Spec: the parsed target of the Scaler's scaled object
    staticConfig,         \* Spec: the Scaler's static configuration
    scalerConfig,         \* Spec: the scaled object's min, max and behaviour
    scalingStabilizers,   \* Spec: Scaler.scalingStabilizers, by workload name
    clock,                \* Spec: Instant.now() at the latest scale call
    cycles,               \* Spec: scale calls made so far
    last,                 \* Spec: what the latest scale call did
    pc,                     \* SpecProvider: where RefreshMetrics stands
    objIndex,               \* SpecProvider: index of the scaled object in the loop
    builders,               \* SpecProvider: trigger indices MakeBuilders built
    running,                \* SpecProvider: scaler goroutines that have not sent
    resultsChan,            \* SpecProvider: the buffered channel of results
    chanClosed,             \* SpecProvider: resultsChan was closed
    metricAndTargetValues,  \* SpecProvider: readings collected for the object
    scaledObjectMetrics,    \* SpecProvider: the aggregate of the cycle
    scaleRequests,          \* SpecProvider: requests handed to scalerClient.Scale
    refreshResult,          \* SpecProvider: what RefreshMetrics returned
    objStatus,              \* SpecProvider: how each scaled object fared
    scalerOutcome,          \* SpecProvider: how each scaler of the cycle fared
    rpc,                    \* SpecProvider: how far the Scale call of the cycle got
    scaleErr,               \* SpecProvider: the error scalerClient.Scale returned
    cancelledAt,            \* SpecProvider: where the cycle stood when ctx was cancelled
    isAnyScalerActive,      \* SpecProvider: the flag GetScaledObjectState keeps
    polling,          \* SpecServer: pollingInterval is set
    tick,             \* SpecServer: a tick waits in ticker.C
    poller,           \* SpecServer: where the polling goroutine stands
    pollFailed,       \* SpecServer: the latest cycle of the polling goroutine failed
    handlers,         \* SpecServer: where the handler of each HTTP request stands
    ctxDone,          \* SpecServer: the context of Start was cancelled
    main,             \* SpecServer: where Start stands
    mpc,              \* SpecManager: where ScalersManager.scale stands
    scalers,          \* SpecManager: ScalersManager.scalers, the targets it holds
    created,          \* SpecManager: the targets a Scaler was built for in the call
    taskPc,           \* SpecManager: where the task of each entry stands
    taskOutcome,      \* SpecManager: how the scaling of each entry ended
    futures,          \* SpecManager: what the task of each entry returned
    results,          \* SpecManager: the results collected so far
    vConfig,          \* SpecValidate: the configuration handed to ValidateConfig
    vResult,          \* SpecValidate: what ValidateConfig returned
    cRead,            \* SpecConfig: the scaled object as unmarshalled
    cLoaded,          \* SpecConfig: the scaled object GetCremaConfig returns
    cEntry,           \* SpecConfig: the pb.ScaledObject of its request entry
    cStage            \* SpecConfig: how far the scaled object has come

stabVars == << sEntries, sNow, sBehavior, sRes, sOps, sLog >>

scalerVars ==
    << workloadInfo, staticConfig, scalerConfig, scalingStabilizers, clock, cycles, last >>

providerVars ==
    << pc, objIndex, builders, running, resultsChan, chanClosed,
       metricAndTargetValues, scaledObjectMetrics, scaleRequests, refreshResult,
       objStatus, scalerOutcome, rpc, scaleErr, cancelledAt, isAnyScalerActive >>

rpcVars == << rpc, scaleErr, cancelledAt >>

serverVars == << polling, tick, poller, pollFailed, handlers, ctxDone, main >>

managerVars == << mpc, scalers, created, taskPc, taskOutcome, futures, results >>

validateVars == << vConfig, vResult >>

configVars == << cRead, cLoaded, cEntry, cStage >>

vars == << stabVars, scalerVars, providerVars, serverVars, managerVars, validateVars, configVars >>

NoRes == [kind |-> "none"]

StabIdle ==
    /\ sEntries = <<>>
    /\ sNow = 0
    /\ sBehavior = Behavior(NoRules, NoRules)
    /\ sRes = NoRes
    /\ sOps = 0
    /\ sLog = <<>>

ProviderIdle ==
    /\ pc = "off"
    /\ objIndex = 0
    /\ builders = <<>>
    /\ running = {}
    /\ resultsChan = <<>>
    /\ chanClosed = FALSE
    /\ metricAndTargetValues = <<>>
    /\ scaledObjectMetrics = <<>>
    /\ scaleRequests = <<>>
    /\ refreshResult = "none"
    /\ objStatus = [n \in ObjectNames |-> "pending"]
    /\ scalerOutcome = [k \in ScalerKeys |-> "none"]
    /\ rpc = "none"
    /\ scaleErr = "none"
    /\ cancelledAt = "none"
    /\ isAnyScalerActive = FALSE

Requests == 1 .. MaxRequests

ServerIdle ==
    /\ polling = FALSE
    /\ tick = FALSE
    /\ poller = "none"
    /\ pollFailed = FALSE
    /\ handlers = [r \in Requests |-> "new"]
    /\ ctxDone = FALSE
    /\ main = "off"

\* the entries of the scale request, by position; entry i names target i
Entries == 1 .. MaxEntries

ManagerIdle ==
    /\ mpc = "off"
    /\ scalers = {}
    /\ created = {}
    /\ taskPc = [i \in Entries |-> "new"]
    /\ taskOutcome = [i \in Entries |-> "none"]
    /\ futures = [i \in Entries |-> [kind |-> "none"]]
    /\ results = <<>>

\* ------------------------------------------------------------ configurations

\* the most scaled objects a configuration of the checks holds
MaxScaledObjects == 2

\* a trigger authentication: its name, the provider of its pod identity
\* ("nil" when it has none) and whether it names a GCP secret manager
TriggerAuthentication(name, podIdentity, gcpSecretManager) ==
    [name |-> name, podIdentity |-> podIdentity, gcpSecretManager |-> gcpSecretManager]

\* a trigger: its type and the name of its authentication reference ("" when
\* it has none or an unnamed one)
Trigger(type, authenticationRef) ==
    [type |-> type, authenticationRef |-> authenticationRef]

\* a scaled object as unmarshalled: the name of its scale target ("" when
\* the reference or the name is missing), whether it carries a polling
\* interval, its triggers and its replica counts
CremaScaledObject(name, pollingInterval, triggers, minReplicaCount, maxReplicaCount) ==
    [name |-> name, pollingInterval |-> pollingInterval, triggers |-> triggers,
     minReplicaCount |-> minReplicaCount, maxReplicaCount |-> maxReplicaCount]

CremaConfig(triggerAuthentications, scaledObjects) ==
    [triggerAuthentications |-> triggerAuthentications, scaledObjects |-> scaledObjects]

NoError == "nil"

validateTriggerAuthentication(ta) ==
    IF ta.name = ""
    THEN "triggerAuthentications.metadata.name: must be set"
    ELSE IF ta.podIdentity = "nil" /\ ~ta.gcpSecretManager
    THEN "triggerAuthentications.spec: must be set"
    ELSE IF ta.podIdentity = ""
    THEN "triggerAuthentications.spec.podIdentity.provider: must be set"
    ELSE NoError

\* the loop of ValidateConfig over the trigger authentications from index i,
\* auths being the names seen so far
RECURSIVE validateTriggerAuthentications(_, _, _)
validateTriggerAuthentications(tas, i, auths) ==
    IF i > Len(tas) THEN NoError
    ELSE IF validateTriggerAuthentication(tas[i]) # NoError
    THEN validateTriggerAuthentication(tas[i])
    ELSE IF tas[i].name \in auths
    THEN "triggerAuthentications.metadata.name: must be unique"
    ELSE validateTriggerAuthentications(tas, i + 1, auths \cup {tas[i].name})

\* the loop of validateScaledObject over the triggers from index j
RECURSIVE validateTriggers(_, _, _)
validateTriggers(triggers, j, auths) ==
    IF j > Len(triggers) THEN NoError
    ELSE IF triggers[j].type = ""
    THEN "scaledObjects.spec.triggers.type: must be set"
    ELSE IF triggers[j].authenticationRef # "" /\ triggers[j].authenticationRef \notin auths
    THEN "scaledObjects.spec.triggers.authenticationRef.name: not found"
    ELSE validateTriggers(triggers, j + 1, auths)

validateScaledObject(so, auths) ==
    IF so.name = ""
    THEN "scaledObjects.spec.scaleTargetRef.name: must be set"
    ELSE IF so.pollingInterval
    THEN "scaledObjects.spec.pollingInterval: must only be specified at the top level"
    ELSE IF Len(so.triggers) = 0
    THEN "scaledObjects.spec.triggers: must have at least one trigger"
    ELSE validateTriggers(so.triggers, 1, auths)

\* the loop of ValidateConfig over the scaled objects from index i
RECURSIVE validateScaledObjects(_, _, _)
validateScaledObjects(sos, i, auths) ==
    IF i > Len(sos) THEN NoError
    ELSE IF validateScaledObject(sos[i], auths) # NoError
    THEN validateScaledObject(sos[i], auths)
    ELSE validateScaledObjects(sos, i + 1, auths)

ValidateConfig(config) ==
    IF Len(config.scaledObjects) = 0
    THEN "spec.scaledObjects: must have at least one scaled object"
    ELSE IF validateTriggerAuthentications(config.triggerAuthentications, 1, {}) # NoError
    THEN validateTriggerAuthentications(config.triggerAuthentications, 1, {})
    ELSE validateScaledObjects(
             config.scaledObjects, 1,
             { config.triggerAuthentications[i].name :
                   i \in DOMAIN config.triggerAuthentications })

\* the trigger authentication lists of the checks
AuthLists ==
    LET good == TriggerAuthentication("auth", "gcp", FALSE)
    IN  { <<>>,
          << good >>,
          << TriggerAuthentication("", "gcp", FALSE) >>,
          << TriggerAuthentication("auth", "nil", FALSE) >>,
          << TriggerAuthentication("auth", "", TRUE) >>,
          << TriggerAuthentication("auth", "nil", TRUE), good >> }

\* the trigger lists of the checks
TriggerLists ==
    { <<>>,
      << Trigger("cpu", "") >>,
      << Trigger("", "") >>,
      << Trigger("cpu", "auth") >>,
      << Trigger("cpu", ""), Trigger("", "auth") >> }

\* the replica counts of the checks: (minReplicaCount, maxReplicaCount)
ReplicaCounts == { <<0, 100>>, <<1, 2>>, <<2, 1>>, <<-1, 100>> }

\* the scaled objects of the checks
ScaledObjectSet ==
    { CremaScaledObject(h[1], h[2], t, r[1], r[2]) :
          h \in { <<"w", FALSE>>, <<"", FALSE>>, <<"w", TRUE>> },
          t \in TriggerLists, r \in ReplicaCounts }

\* the configurations of the checks
ConfigSet ==
    { CremaConfig(tas, sos) :
          tas \in AuthLists,
          sos \in UNION { [1 .. n -> ScaledObjectSet] : n \in 0 .. MaxScaledObjects } }

ValidateIdle ==
    /\ vConfig = CremaConfig(<<>>, <<>>)
    /\ vResult = "off"

\* a pointer that is not set, and a pointer to v
Nil == <<>>
Ptr(v) == << v >>

\* the maximum given to a scaled object that has none
defaultMaxInstances == 100

\* how much of spec.advanced is set: nothing ("nil"), Advanced without a
\* HorizontalPodAutoscalerConfig ("advanced"), that without a Behavior
\* ("hpaConfig"), or all three ("behavior")
AdvancedShapes == {"nil", "advanced", "hpaConfig", "behavior"}

\* the fields of a ScaledObjectSpec that the defaults and ToPbScaledObject
\* read; the scaling rules inside Behavior are carried with it as they are
ScaledObjectSpec(name, minReplicaCount, maxReplicaCount, advanced) ==
    [scaleTargetRef  |-> name,
     minReplicaCount |-> minReplicaCount,
     maxReplicaCount |-> maxReplicaCount,
     advanced        |-> advanced]

\* the body of the loop of applyDefaultMaxInstances, for one scaled object
applyDefaultMaxInstances(scaledObject) ==
    IF scaledObject.maxReplicaCount = Nil
        THEN [scaledObject EXCEPT !.maxReplicaCount = Ptr(defaultMaxInstances)]
        ELSE scaledObject

\* a scaled object whose Advanced is left as it was read
keepAdvanced(scaledObject) == scaledObject

\* Advanced, its HorizontalPodAutoscalerConfig and its Behavior are each set
\* when they are nil, and the behaviour gets its default rules
applyDefaultScalingStabilizationForScaledObject(scaledObject) ==
    [scaledObject EXCEPT !.advanced = "behavior"]

\* applyDefaults, for one scaled object of the configuration
applyDefaults(scaledObject) ==
    applyDefaultScalingStabilizationForScaledObject(applyDefaultMaxInstances(scaledObject))

\* the pb.ScaledObject of a request entry: Advanced is built, with the
\* replica counts that are set, only when the specification has a Behavior
ToPbScaledObject(kedaScaledObjectSpec) ==
    IF kedaScaledObjectSpec.advanced = "behavior"
        THEN [scaleTargetRef |-> kedaScaledObjectSpec.scaleTargetRef,
              advanced |->
                  Ptr([minInstances |->
                           IF kedaScaledObjectSpec.minReplicaCount # Nil
                               THEN kedaScaledObjectSpec.minReplicaCount[1] ELSE 0,
                       maxInstances |->
                           IF kedaScaledObjectSpec.maxReplicaCount # Nil
                               THEN kedaScaledObjectSpec.maxReplicaCount[1] ELSE 0,
                       behavior |-> "set"])]
        ELSE [scaleTargetRef |-> kedaScaledObjectSpec.scaleTargetRef,
              advanced |-> Nil]

\* the replica counts a configuration can give: none, or a number
ReplicaPointers == {Nil} \cup { Ptr(n) : n \in {0, 1, 2, 100} }

\* the scaled objects of the checks of the defaults
ScaledObjectSpecSet ==
    { ScaledObjectSpec("a", lo, hi, adv) :
          lo \in ReplicaPointers, hi \in ReplicaPointers, adv \in AdvancedShapes }

ConfigIdle ==
    /\ cRead = ScaledObjectSpec("", Nil, Nil, "nil")
    /\ cLoaded = ScaledObjectSpec("", Nil, Nil, "nil")
    /\ cEntry = ToPbScaledObject(ScaledObjectSpec("", Nil, Nil, "nil"))
    /\ cStage = "off"

\* -------------------------------------------------------------------- Spec

WorkloadName == "w"

NoLast ==
    [path |-> "none", status |-> "none", current |-> 0, unbounded |-> 0,
     stabilized |-> 0, bounded |-> 0, update |-> NoUpdate, marked |-> FALSE,
     before |-> <<>>, metrics |-> <<>>]

ScalerIdle ==
    /\ workloadInfo = [workloadType |-> "SERVICE", name |-> WorkloadName]
    /\ staticConfig = [useMinInstances |-> FALSE]
    /\ scalerConfig = ScalerConfig(0, 0, Behavior(NoRules, NoRules))
    /\ scalingStabilizers = [n \in {WorkloadName} |-> <<>>]
    /\ clock = 0
    /\ cycles = 0
    /\ last = NoLast

\* the scaled objects the checks draw from: min, max and behaviour
ScalerConfigSet ==
    { ScalerConfig(0, 2, Behavior(NoRules, NoRules)),
      ScalerConfig(1, 2, Behavior(WindowRules, WindowRules)),
      ScalerConfig(0, 1, Behavior(TwoMinRules, TwoMinRules)),
      ScalerConfig(2, 2, Behavior(PercentRules, PercentRules)),
      ScalerConfig(2, 1, Behavior(NoRules, NoRules)) }

\* the metric lists the checks draw from
MetricLists ==
    { <<>>,
      << Metric(0, TRUE, 1, FALSE, 0) >>,
      << Metric(2, FALSE, 0, TRUE, 1) >>,
      << Metric(1, TRUE, 1, TRUE, 0) >>,
      << Metric(1, FALSE, 0, FALSE, 0) >>,
      << Metric(3, TRUE, 0, TRUE, 0), Metric(1, TRUE, 2, TRUE, 1) >>,
      << Metric(200, TRUE, 50, TRUE, 100) >>,
      << Metric(3, TRUE, 0, TRUE, 0), Metric(1, FALSE, 0, FALSE, 0) >>,
      << Metric(3, FALSE, 0, TRUE, 1), Metric(1, TRUE, 1, FALSE, 0),
         Metric(9, TRUE, 0, FALSE, 0) >> }

\* a Scaler as ScalersManager.getOrCreateScaler builds it for one scaled
\* object: no stabilizer yet
ScalerInit ==
    /\ workloadInfo \in [workloadType : {"SERVICE", "WORKERPOOL"}, name : {WorkloadName}]
    /\ staticConfig \in [useMinInstances : BOOLEAN]
    /\ scalerConfig \in ScalerConfigSet
    /\ scalingStabilizers = [n \in {WorkloadName} |-> <<>>]
    /\ clock = 0
    /\ cycles = 0
    /\ last = NoLast
    /\ StabIdle
    /\ ProviderIdle
    /\ ServerIdle
    /\ ManagerIdle
    /\ ValidateIdle
    /\ ConfigIdle

\* what every scale call does to the clock and the call count; the calls
\* are one polling interval, the unit of time, apart
Called ==
    /\ cycles < MaxCycles
    /\ clock' = clock + 1
    /\ cycles' = cycles + 1
    /\ UNCHANGED << workloadInfo, staticConfig, scalerConfig >>
    /\ UNCHANGED << stabVars, providerVars, serverVars, managerVars, validateVars, configVars >>

\* a scale that refuses nothing
neverRefused == FALSE

\* the test scale makes before anything else
Unsupported == workloadInfo.workloadType = "WORKERPOOL" /\ staticConfig.useMinInstances

\* scale: a worker pool under USE_MIN_INSTANCES is refused before any read
ScaleUnsupported ==
    /\ Called
    /\ Unsupported
    /\ last' = [NoLast EXCEPT !.path = "unsupported",
                              !.status = "IllegalArgumentException",
                              !.before = scalingStabilizers[workloadInfo.name]]
    /\ UNCHANGED scalingStabilizers

\* scale: InstanceCountProvider.getInstanceCount throws
ScaleReadFails ==
    /\ Called
    /\ ~Unsupported
    /\ last' = [NoLast EXCEPT !.path = "read", !.status = "IOException",
                              !.before = scalingStabilizers[workloadInfo.name]]
    /\ UNCHANGED scalingStabilizers

\* scale with an empty metric list: update to 0 and return
ScaleNoMetrics(current, updateOk) ==
    /\ Called
    /\ ~Unsupported
    /\ last' = [NoLast EXCEPT
                  !.path = "noMetrics",
                  !.status = IF updateOk THEN "SUCCEEDED" ELSE "IOException",
                  !.current = current,
                  !.update = Update(updateInstanceCount(staticConfig.useMinInstances,
                                                        workloadInfo.workloadType),
                                    0, updateOk),
                  !.before = scalingStabilizers[workloadInfo.name]]
    /\ UNCHANGED scalingStabilizers

\* scale with metrics none of which has a target above 0
ScaleNoValidTrigger(current, metrics) ==
    /\ Called
    /\ ~Unsupported
    /\ metrics # <<>>
    /\ ~hasValidTrigger(metrics)
    /\ last' = [NoLast EXCEPT !.path = "noValidTrigger", !.status = "FAILED",
                              !.current = current, !.metrics = metrics,
                              !.before = scalingStabilizers[workloadInfo.name]]
    /\ UNCHANGED scalingStabilizers

\* scale with a valid trigger: stabilize, clamp, and update and mark when
\* the count changes
ScaleRecommend(current, metrics, updateOk) ==
    /\ Called
    /\ ~Unsupported
    /\ hasValidTrigger(metrics)
    /\ \E now \in {clock + 1},
          unbounded \in {unboundedRecommendation(metrics, current)},
          stabilizer \in {computeIfAbsent(scalingStabilizers[workloadInfo.name],
                                          clock + 1, current)} :
       \E stabilized \in {getStabilizedRecommendation(
                              stabilizer, scalerConfig.behavior, now, current, unbounded)},
          queried \in {historyAfterQuery(
                           stabilizer, scalerConfig.behavior, now, current, unbounded)},
          new \in {getBoundedRecommendation(
                       stabilizer, scalerConfig, now, current, unbounded)} :
         LET thrown  == scalerConfig.minInstances > scalerConfig.maxInstances
             updates == ~thrown /\ needsUpdate(new, current)
             marks   == updates /\ updateOk
         IN  /\ updates \/ updateOk
             /\ last' = [path       |-> "recommend",
                         status     |-> IF thrown THEN "IllegalArgumentException"
                                        ELSE IF updates /\ ~updateOk THEN "IOException"
                                        ELSE "SUCCEEDED",
                         current    |-> current,
                         unbounded  |-> unbounded,
                         stabilized |-> stabilized,
                         bounded    |-> IF thrown THEN 0 ELSE new,
                         update     |-> IF updates
                                        THEN Update(updateInstanceCount(
                                                        staticConfig.useMinInstances,
                                                        workloadInfo.workloadType),
                                                    new, updateOk)
                                        ELSE NoUpdate,
                         marked     |-> marks,
                         before     |-> scalingStabilizers[workloadInfo.name],
                         metrics    |-> metrics]
             /\ scalingStabilizers' =
                    [scalingStabilizers EXCEPT ![workloadInfo.name] =
                        IF marks
                        THEN markScaleEvent(queried, scalerConfig.behavior,
                                            now, current, new)
                        ELSE queried]

ScalerNext ==
    \/ ScaleUnsupported
    \/ ScaleReadFails
    \/ \E c \in InstVals, ok \in BOOLEAN : ScaleNoMetrics(c, ok)
    \/ \E c \in InstVals, m \in MetricLists : ScaleNoValidTrigger(c, m)
    \/ \E c \in InstVals, m \in MetricLists, ok \in BOOLEAN : ScaleRecommend(c, m, ok)

Spec == ScalerInit /\ [][ScalerNext]_vars

\* ---------------------------------------------------------------- SpecStab

\* a stabilizer created at time 0 at some instance count
StabInit ==
    /\ sNow = 0
    /\ sBehavior \in BehaviorSet
    /\ \E c \in InstVals : sEntries = newStabilizer(0, c)
    /\ sRes = NoRes
    /\ sOps = 0
    /\ sLog = <<>>
    /\ ScalerIdle
    /\ ProviderIdle
    /\ ServerIdle
    /\ ManagerIdle
    /\ ValidateIdle
    /\ ConfigIdle

\* one call of getStabilizedRecommendation, dt after the previous call
StabQuery(dt, current, unbounded) ==
    /\ sOps < MaxOps
    /\ sNow' = sNow + dt
    /\ sRes' = [kind      |-> "query",
                now       |-> sNow + dt,
                current   |-> current,
                unbounded |-> unbounded,
                before    |-> sEntries,
                out       |-> getStabilizedRecommendation(
                                  sEntries, sBehavior, sNow + dt, current, unbounded)]
    /\ sEntries' = historyAfterQuery(sEntries, sBehavior, sNow + dt, current, unbounded)
    /\ sOps' = sOps + 1
    /\ UNCHANGED << sBehavior, sLog >>
    /\ UNCHANGED << scalerVars, providerVars, serverVars, managerVars, validateVars, configVars >>

\* one call of markScaleEvent, made as Scaler.scale makes it: after a query,
\* with the query's time and current count, and the count that was applied
StabMark(new) ==
    /\ sOps < MaxOps
    /\ sRes.kind = "query"
    /\ sEntries' = markScaleEvent(sEntries, sBehavior, sRes.now, sRes.current, new)
    /\ sRes' = NoRes
    /\ sOps' = sOps + 1
    /\ UNCHANGED << sBehavior, sNow, sLog >>
    /\ UNCHANGED << scalerVars, providerVars, serverVars, managerVars, validateVars, configVars >>

StabNext ==
    \/ \E dt \in 0 .. 1, c \in InstVals, u \in UnboundedVals : StabQuery(dt, c, u)
    \/ \E n \in InstVals : StabMark(n)

SpecStab == StabInit /\ [][StabNext]_vars

\* ------------------------------------------------------------ SpecScenario

\* the count the stabilizers of ScalingStabilizerTest are created at
ScenarioStart == 100

\* new ScalingStabilizer(100)
ScenarioStabilizer == newStabilizer(0, ScenarioStart)

\* seconds between one query and the next
ScenarioSteps == {1, 59, 60, 61}

\* the recommendations the queries ask for
ScenarioUnbounded == {10, 90}

Call(kind, t, current, arg, out) ==
    [kind |-> kind, t |-> t, current |-> current, arg |-> arg, out |-> out]

\* the instance count of the workload: the count of the stabilizer's
\* creation until an update is applied, then the count applied last
ScenarioCurrent ==
    IF sLog = <<>> THEN ScenarioStart
    ELSE IF sLog[Len(sLog)].kind = "mark" THEN sLog[Len(sLog)].arg
    ELSE sLog[Len(sLog)].current

ScenarioInit ==
    /\ sNow = 0
    /\ sBehavior \in ScenarioBehaviors
    /\ sEntries = ScenarioStabilizer
    /\ sRes = NoRes
    /\ sOps = 0
    /\ sLog = <<>>
    /\ ScalerIdle
    /\ ProviderIdle
    /\ ServerIdle
    /\ ManagerIdle
    /\ ValidateIdle
    /\ ConfigIdle

\* getStabilizedRecommendation at the workload's count, dt after the call
\* before; only the first query may be made at the time of creation
ScenarioQuery(dt, unbounded) ==
    /\ Len(sLog) < MaxScenarioOps
    /\ sNow + dt <= MaxScenarioTime
    /\ dt = 0 => sLog = <<>>
    /\ \E now \in {sNow + dt}, current \in {ScenarioCurrent} :
       \E out \in {getStabilizedRecommendation(sEntries, sBehavior, now, current, unbounded)} :
          /\ sNow' = now
          /\ sRes' = [kind |-> "query", now |-> now, current |-> current,
                      unbounded |-> unbounded, before |-> sEntries, out |-> out]
          /\ sEntries' = historyAfterQuery(sEntries, sBehavior, now, current, unbounded)
          /\ sLog' = Append(sLog, Call("query", now, current, unbounded, out))
    /\ UNCHANGED << sBehavior, sOps >>
    /\ UNCHANGED << scalerVars, providerVars, serverVars, managerVars, validateVars, configVars >>

\* markScaleEvent as Scaler.scale calls it: right after a query that changed
\* the count, with the count the query returned
ScenarioMark ==
    /\ Len(sLog) < MaxScenarioOps
    /\ sRes.kind = "query"
    /\ sRes.out # sRes.current
    /\ sEntries' = markScaleEvent(sEntries, sBehavior, sRes.now, sRes.current, sRes.out)
    /\ sLog' = Append(sLog, Call("mark", sRes.now, sRes.current, sRes.out, sRes.out))
    /\ sRes' = NoRes
    /\ UNCHANGED << sBehavior, sNow, sOps >>
    /\ UNCHANGED << scalerVars, providerVars, serverVars, managerVars, validateVars, configVars >>

ScenarioNext ==
    \/ \E dt \in {0} \cup ScenarioSteps, u \in ScenarioUnbounded : ScenarioQuery(dt, u)
    \/ ScenarioMark

SpecScenario == ScenarioInit /\ [][ScenarioNext]_vars

\* ------------------------------------------------------------- SpecManager

\* a ScalingResult; an unset scale_target_name is the empty name 0
ScalingResult(name, status) == [kind |-> "result", name |-> name, status |-> status]

\* a task that ended with an exception
Thrown == [kind |-> "thrown"]

\* the exceptions the task catches: the ones Scaler.scale declares
CaughtExceptions == {"IOException", "ExecutionException", "InterruptedException"}

\* how the scaling of an entry can end: a status returned by Scaler.scale, a
\* declared exception, or an unchecked one (IllegalArgumentException)
ScaleOutcomes ==
    {"SUCCEEDED", "FAILED", "IllegalArgumentException"} \cup CaughtExceptions

\* how getOrCreateScaler can end for a target without a Scaler
CreateOutcomes == {"ok", "IOException", "IllegalArgumentException"}

\* the Callable of an entry: the status of Scaler.scale or, for a caught
\* exception, FAILED, under the entry's target name; any other exception
\* leaves the task
taskResult(name, outcome) ==
    IF outcome \in {"SUCCEEDED", "FAILED"} THEN ScalingResult(name, outcome)
    ELSE IF outcome \in CaughtExceptions THEN ScalingResult(name, "FAILED")
    ELSE Thrown

\* a loop in which a task that threw fails the results collected before it
failsBatch(collected, future) ==
    IF future = Thrown
    THEN Append([i \in DOMAIN collected |-> ScalingResult(collected[i].name, "FAILED")],
                ScalingResult(0, "FAILED"))
    ELSE Append(collected, future)

\* the loop over the futures: the result of future.get(), or a FAILED result
\* without a name when get() throws ExecutionException
collectFuture(collected, future) ==
    IF future = Thrown THEN Append(collected, ScalingResult(0, "FAILED"))
    ELSE Append(collected, future)

\* before a call of ScalersManager.scale: a request of up to MaxEntries
\* entries; earlier calls may have left a Scaler for some of the targets
ManagerInit ==
    /\ mpc = "idle"
    /\ scalers \in SUBSET Entries
    /\ created = {}
    /\ \E n \in Entries : taskPc = [i \in Entries |-> IF i <= n THEN "new" ELSE "absent"]
    /\ taskOutcome = [i \in Entries |-> "none"]
    /\ futures = [i \in Entries |-> [kind |-> "none"]]
    /\ results = <<>>
    /\ StabIdle
    /\ ScalerIdle
    /\ ProviderIdle
    /\ ServerIdle
    /\ ValidateIdle
    /\ ConfigIdle

ManagerFrame ==
    UNCHANGED << stabVars, scalerVars, providerVars, serverVars, validateVars, configVars >>

\* the entries of the request
Requested == { i \in Entries : taskPc[i] # "absent" }

\* scale builds the tasks and hands them to executorService.invokeAll
InvokeAll ==
    /\ mpc = "idle"
    /\ mpc' = "invoked"
    /\ taskPc' = [i \in Entries |-> IF i \in Requested THEN "lookup" ELSE "absent"]
    /\ UNCHANGED << scalers, created, taskOutcome, futures, results >>
    /\ ManagerFrame

\* the tasks that are inside scalers.put
Putting == { i \in Entries : taskPc[i] \in {"putting", "racing"} }

\* getOrCreateScaler in the task of entry i, up to its put: the Scaler of the
\* target is found in the map, or one is built, or building it throws
GetOrCreateScaler(i, outcome) ==
    /\ mpc = "invoked"
    /\ taskPc[i] = "lookup"
    /\ IF i \in scalers
       THEN /\ outcome = "ok"
            /\ taskPc' = [taskPc EXCEPT ![i] = "scale"]
            /\ UNCHANGED << created, taskOutcome, futures >>
       ELSE IF outcome = "ok"
       THEN /\ created' = created \cup {i}
            /\ taskPc' = [taskPc EXCEPT ![i] = "put"]
            /\ UNCHANGED << taskOutcome, futures >>
       ELSE /\ taskOutcome' = [taskOutcome EXCEPT ![i] = outcome]
            /\ futures' = [futures EXCEPT ![i] = taskResult(i, outcome)]
            /\ taskPc' = [taskPc EXCEPT ![i] = "done"]
            /\ UNCHANGED created
    /\ UNCHANGED << mpc, scalers, results >>
    /\ ManagerFrame

\* the task of entry i enters scalers.put; the map is a HashMap and the task
\* holds no lock, so other tasks can be inside put: they race with this one
PutBegins(i) ==
    /\ mpc = "invoked"
    /\ taskPc[i] = "put"
    /\ taskPc' = [j \in Entries |->
                     IF Putting = {} THEN (IF j = i THEN "putting" ELSE taskPc[j])
                     ELSE IF j = i \/ j \in Putting THEN "racing" ELSE taskPc[j]]
    /\ UNCHANGED << mpc, scalers, created, taskOutcome, futures, results >>
    /\ ManagerFrame

\* scalers.put returns in the task of entry i. A put that ran alone has
\* stored the Scaler; one that raced with another has stored it or lost it
PutEnds(i, kept) ==
    /\ mpc = "invoked"
    /\ i \in Putting
    /\ kept \/ taskPc[i] = "racing"
    /\ scalers' = IF kept THEN scalers \cup {i} ELSE scalers
    /\ taskPc' = [taskPc EXCEPT ![i] = "scale"]
    /\ UNCHANGED << mpc, created, taskOutcome, futures, results >>
    /\ ManagerFrame

\* scaler.scale in the task of entry i ends with outcome; the task ends
TaskScale(i, outcome) ==
    /\ mpc = "invoked"
    /\ taskPc[i] = "scale"
    /\ taskOutcome' = [taskOutcome EXCEPT ![i] = outcome]
    /\ futures' = [futures EXCEPT ![i] = taskResult(i, outcome)]
    /\ taskPc' = [taskPc EXCEPT ![i] = "done"]
    /\ UNCHANGED << mpc, scalers, created, results >>
    /\ ManagerFrame

\* invokeAll returns when every task has ended
InvokeAllReturns ==
    /\ mpc = "invoked"
    /\ \A i \in Requested : taskPc[i] = "done"
    /\ mpc' = "collect"
    /\ UNCHANGED << scalers, created, taskPc, taskOutcome, futures, results >>
    /\ ManagerFrame

\* the thread of scale is interrupted while it waits in invokeAll: the
\* unfinished tasks are cancelled and scale throws InterruptedException
Interrupted ==
    /\ mpc = "invoked"
    /\ mpc' = "interrupted"
    /\ UNCHANGED << scalers, created, taskPc, taskOutcome, futures, results >>
    /\ ManagerFrame

\* one round of the loop over the futures, in the order of the request
CollectNext ==
    /\ mpc = "collect"
    /\ Len(results) < Cardinality(Requested)
    /\ results' = collectFuture(results, futures[Len(results) + 1])
    /\ UNCHANGED << mpc, scalers, created, taskPc, taskOutcome, futures >>
    /\ ManagerFrame

\* the loop is over: scale returns the results
ScaleReturns ==
    /\ mpc = "collect"
    /\ Len(results) >= Cardinality(Requested)
    /\ mpc' = "returned"
    /\ UNCHANGED << scalers, created, taskPc, taskOutcome, futures, results >>
    /\ ManagerFrame

ManagerNext ==
    \/ InvokeAll
    \/ \E i \in Entries, o \in CreateOutcomes : GetOrCreateScaler(i, o)
    \/ \E i \in Entries : PutBegins(i)
    \/ \E i \in Entries, kept \in BOOLEAN : PutEnds(i, kept)
    \/ \E i \in Entries, o \in ScaleOutcomes : TaskScale(i, o)
    \/ InvokeAllReturns
    \/ Interrupted
    \/ CollectNext
    \/ ScaleReturns

SpecManager == ManagerInit /\ [][ManagerNext]_vars

\* ------------------------------------------------------------ SpecValidate

\* an unmarshalled configuration, before ValidateConfig is called on it
ValidateInit ==
    /\ vConfig \in ConfigSet
    /\ vResult = "none"
    /\ StabIdle
    /\ ScalerIdle
    /\ ProviderIdle
    /\ ServerIdle
    /\ ManagerIdle
    /\ ConfigIdle

\* ValidateConfig is called on the configuration
Validate ==
    /\ vResult = "none"
    /\ vResult' = ValidateConfig(vConfig)
    /\ UNCHANGED vConfig
    /\ UNCHANGED << stabVars, scalerVars, providerVars, serverVars, managerVars, configVars >>

ValidateNext ==
    \/ Validate

SpecValidate == ValidateInit /\ [][ValidateNext]_vars

\* -------------------------------------------------------------- SpecConfig

\* a scaled object of the configuration, as unmarshalled from the parameter
ConfigInit ==
    /\ cRead \in ScaledObjectSpecSet
    /\ cLoaded = cRead
    /\ cEntry = ToPbScaledObject(ScaledObjectSpec("", Nil, Nil, "nil"))
    /\ cStage = "unmarshalled"
    /\ StabIdle
    /\ ScalerIdle
    /\ ProviderIdle
    /\ ServerIdle
    /\ ManagerIdle
    /\ ValidateIdle

\* GetCremaConfig returns the configuration with the defaults applied
GetCremaConfig ==
    /\ cStage = "unmarshalled"
    /\ cLoaded' = applyDefaults(cRead)
    /\ cStage' = "loaded"
    /\ UNCHANGED << cRead, cEntry >>
    /\ UNCHANGED << stabVars, scalerVars, providerVars, serverVars, managerVars, validateVars >>

\* RefreshMetrics builds the entry of the scaled object for the scale request
BuildEntry ==
    /\ cStage = "loaded"
    /\ cEntry' = ToPbScaledObject(cLoaded)
    /\ cStage' = "sent"
    /\ UNCHANGED << cRead, cLoaded >>
    /\ UNCHANGED << stabVars, scalerVars, providerVars, serverVars, managerVars, validateVars >>

ConfigNext ==
    \/ GetCremaConfig
    \/ BuildEntry

SpecConfig == ConfigInit /\ [][ConfigNext]_vars

\* ------------------------------------------------------------ SpecProvider

\* before a call of Orchestrator.RefreshMetrics
ProviderInit ==
    /\ pc = "idle"
    /\ objIndex = 0
    /\ builders = <<>>
    /\ running = {}
    /\ resultsChan = <<>>
    /\ chanClosed = FALSE
    /\ metricAndTargetValues = <<>>
    /\ scaledObjectMetrics = <<>>
    /\ scaleRequests = <<>>
    /\ refreshResult = "none"
    /\ objStatus = [n \in ObjectNames |-> "pending"]
    /\ scalerOutcome = [k \in ScalerKeys |-> "none"]
    /\ rpc = "none"
    /\ scaleErr = "none"
    /\ cancelledAt = "none"
    /\ isAnyScalerActive = FALSE
    /\ StabIdle
    /\ ScalerIdle
    /\ ServerIdle
    /\ ManagerIdle
    /\ ValidateIdle
    /\ ConfigIdle

CurrentObject == kedaScaledObjects[objIndex]

\* RefreshMetrics is entered: the loop starts at the first scaled object
BeginRefresh ==
    /\ pc = "idle"
    /\ pc' = "loop"
    /\ objIndex' = 1
    /\ UNCHANGED << builders, running, resultsChan, chanClosed, metricAndTargetValues,
                    scaledObjectMetrics, scaleRequests, refreshResult, objStatus,
                    scalerOutcome >>
    /\ UNCHANGED rpcVars
    /\ UNCHANGED isAnyScalerActive
    /\ UNCHANGED << stabVars, scalerVars, serverVars, managerVars, validateVars, configVars >>

\* MakeBuilders for the scaled object of the loop: fate tells how the factory
\* of each of its triggers ends. None built: an error, the object is
\* skipped. Otherwise GetScaledObjectState starts one goroutine per builder.
MakeBuilders(fate) ==
    /\ pc = "loop"
    /\ objIndex <= Len(kedaScaledObjects)
    /\ fate \in [Triggers(CurrentObject) -> BuildFates]
    /\ \E built \in {{ t \in Triggers(CurrentObject) : ~factoryFails(fate[t]) }} :
        /\ scalerOutcome' =
               [k \in ScalerKeys |->
                   IF k[1] = CurrentObject.name /\ k[2] \in Triggers(CurrentObject) \ built
                   THEN fate[k[2]] ELSE scalerOutcome[k]]
        /\ IF makeBuildersFails(Cardinality(built), CurrentObject.triggers)
           THEN /\ objStatus' = [objStatus EXCEPT ![CurrentObject.name] = "buildFailed"]
                /\ objIndex' = continueOnError(objIndex, Len(kedaScaledObjects))
                /\ UNCHANGED << pc, builders, running, resultsChan, chanClosed,
                                metricAndTargetValues, isAnyScalerActive >>
           ELSE /\ pc' = "collect"
                /\ builders' = SortedSeq(built)
                /\ running' = built
                /\ resultsChan' = <<>>
                /\ chanClosed' = FALSE
                /\ metricAndTargetValues' = <<>>
                /\ isAnyScalerActive' = FALSE
                /\ UNCHANGED << objIndex, objStatus >>
    /\ UNCHANGED << scaledObjectMetrics, scaleRequests, refreshResult >>
    /\ UNCHANGED rpcVars
    /\ UNCHANGED << stabVars, scalerVars, serverVars, managerVars, validateVars, configVars >>

\* the goroutine of one builder sends the result of getScalerState, which
\* takes a free place in the channel
ScalerReturns(t, outcome) ==
    /\ pc = "collect"
    /\ t \in running
    /\ Len(resultsChan) < chanCapacity(Len(builders))
    /\ running' = running \ {t}
    /\ resultsChan' = Append(resultsChan, getScalerState(t, outcome))
    /\ scalerOutcome' = [scalerOutcome EXCEPT ![<<CurrentObject.name, t>>] = outcome]
    /\ UNCHANGED << pc, objIndex, builders, chanClosed, metricAndTargetValues,
                    scaledObjectMetrics, scaleRequests, refreshResult, objStatus >>
    /\ UNCHANGED rpcVars
    /\ UNCHANGED isAnyScalerActive
    /\ UNCHANGED << stabVars, scalerVars, serverVars, managerVars, validateVars, configVars >>

\* the closing goroutine: wg.Wait() returns, close(resultsChan)
CloseResults ==
    /\ pc = "collect"
    /\ running = {}
    /\ ~chanClosed
    /\ chanClosed' = TRUE
    /\ UNCHANGED << pc, objIndex, builders, running, resultsChan,
                    metricAndTargetValues, scaledObjectMetrics, scaleRequests,
                    refreshResult, objStatus, scalerOutcome >>
    /\ UNCHANGED rpcVars
    /\ UNCHANGED isAnyScalerActive
    /\ UNCHANGED << stabVars, scalerVars, serverVars, managerVars, validateVars, configVars >>

\* one turn of `for result := range resultsChan`
ReceiveResult ==
    /\ pc = "collect"
    /\ resultsChan # <<>>
    /\ metricAndTargetValues' = collect(metricAndTargetValues, Head(resultsChan))
    /\ isAnyScalerActive' = noteActivity(isAnyScalerActive, Head(resultsChan))
    /\ resultsChan' = Tail(resultsChan)
    /\ UNCHANGED << pc, objIndex, builders, running, chanClosed, scaledObjectMetrics,
                    scaleRequests, refreshResult, objStatus, scalerOutcome >>
    /\ UNCHANGED rpcVars
    /\ UNCHANGED << stabVars, scalerVars, serverVars, managerVars, validateVars, configVars >>

\* the range loop ends on the closed, drained channel; GetScaledObjectState
\* returns, and RefreshMetrics appends the entry of the object or skips it;
\* it does not read IsActive, which is gone with the call
EndCollect ==
    /\ pc = "collect"
    /\ chanClosed
    /\ resultsChan = <<>>
    /\ pc' = "loop"
    /\ IF getScaledObjectStateFails(metricAndTargetValues, Len(builders))
       THEN /\ objStatus' = [objStatus EXCEPT ![CurrentObject.name] = "stateFailed"]
            /\ objIndex' = continueOnError(objIndex, Len(kedaScaledObjects))
            /\ UNCHANGED scaledObjectMetrics
       ELSE /\ objStatus' = [objStatus EXCEPT ![CurrentObject.name] = "ok"]
            /\ objIndex' = objIndex + 1
            /\ scaledObjectMetrics' =
                   Append(scaledObjectMetrics,
                          ObjectMetrics(CurrentObject, metricAndTargetValues))
    /\ UNCHANGED << builders, running, resultsChan, chanClosed, metricAndTargetValues,
                    scaleRequests, refreshResult, scalerOutcome >>
    /\ UNCHANGED rpcVars
    /\ isAnyScalerActive' = FALSE
    /\ UNCHANGED << stabVars, scalerVars, serverVars, managerVars, validateVars, configVars >>

\* after the loop, a non-empty aggregate is handed to scalerClient.Scale with
\* the context of the cycle; a call made with a cancelled context is refused
\* by the client and never leaves the process
SendScaleRequest ==
    /\ pc = "loop"
    /\ objIndex > Len(kedaScaledObjects)
    /\ hasObjectsToScale(scaledObjectMetrics)
    /\ scaleRequests' = Append(scaleRequests, scaledObjectMetrics)
    /\ rpc' = IF cancelledAt = "none" THEN "sent" ELSE "refused"
    /\ pc' = "rpc"
    /\ UNCHANGED << objIndex, builders, running, resultsChan, chanClosed,
                    metricAndTargetValues, scaledObjectMetrics, refreshResult,
                    objStatus, scalerOutcome, scaleErr, cancelledAt >>
    /\ UNCHANGED isAnyScalerActive
    /\ UNCHANGED << stabVars, scalerVars, serverVars, managerVars, validateVars, configVars >>

\* the scaler service receives the request: ScalerServerImpl.scale starts
\* ScalersManager.scale on it
ScalerServiceStarts ==
    /\ rpc = "sent"
    /\ rpc' = "running"
    /\ UNCHANGED << pc, objIndex, builders, running, resultsChan, chanClosed,
                    metricAndTargetValues, scaledObjectMetrics, scaleRequests,
                    refreshResult, objStatus, scalerOutcome, scaleErr, cancelledAt >>
    /\ UNCHANGED isAnyScalerActive
    /\ UNCHANGED << stabVars, scalerVars, serverVars, managerVars, validateVars, configVars >>

\* ScalersManager.scale has run for every scaled object of the request;
\* ScalerServerImpl.scale does not look at the cancellation of the call
ScalerServiceCompletes ==
    /\ rpc = "running"
    /\ rpc' = "handled"
    /\ UNCHANGED << pc, objIndex, builders, running, resultsChan, chanClosed,
                    metricAndTargetValues, scaledObjectMetrics, scaleRequests,
                    refreshResult, objStatus, scalerOutcome, scaleErr, cancelledAt >>
    /\ UNCHANGED isAnyScalerActive
    /\ UNCHANGED << stabVars, scalerVars, serverVars, managerVars, validateVars, configVars >>

\* scalerClient.Scale returns, and RefreshMetrics returns with it: nil once
\* the service has answered, Canceled once the context is cancelled,
\* Unavailable whenever the transport gives up
ScaleRpcReturns(err) ==
    /\ pc = "rpc"
    /\ \/ err = "nil" /\ rpc = "handled" /\ cancelledAt = "none"
       \/ err = "Canceled" /\ cancelledAt # "none"
       \/ err = "Unavailable" /\ rpc # "refused"
    /\ scaleErr' = err
    /\ refreshResult' = refreshReturn(err)
    /\ pc' = "done"
    /\ UNCHANGED << objIndex, builders, running, resultsChan, chanClosed,
                    metricAndTargetValues, scaledObjectMetrics, scaleRequests,
                    objStatus, scalerOutcome, rpc, cancelledAt >>
    /\ UNCHANGED isAnyScalerActive
    /\ UNCHANGED << stabVars, scalerVars, serverVars, managerVars, validateVars, configVars >>

\* after the loop, an empty aggregate: no Scale call, nil is returned
SkipScaleRequest ==
    /\ pc = "loop"
    /\ objIndex > Len(kedaScaledObjects)
    /\ ~hasObjectsToScale(scaledObjectMetrics)
    /\ refreshResult' = "nil"
    /\ pc' = "done"
    /\ UNCHANGED << objIndex, builders, running, resultsChan, chanClosed,
                    metricAndTargetValues, scaledObjectMetrics, scaleRequests,
                    objStatus, scalerOutcome >>
    /\ UNCHANGED rpcVars
    /\ UNCHANGED isAnyScalerActive
    /\ UNCHANGED << stabVars, scalerVars, serverVars, managerVars, validateVars, configVars >>

\* the context RefreshMetrics was called with is cancelled while the cycle is
\* in flight; RefreshMetrics itself never looks at it
CycleCancelled ==
    /\ pc \in {"loop", "collect", "rpc"}
    /\ cancelledAt = "none"
    /\ cancelledAt' = IF pc = "rpc" THEN rpc ELSE pc
    /\ UNCHANGED << pc, objIndex, builders, running, resultsChan, chanClosed,
                    metricAndTargetValues, scaledObjectMetrics, scaleRequests,
                    refreshResult, objStatus, scalerOutcome, rpc, scaleErr >>
    /\ UNCHANGED isAnyScalerActive
    /\ UNCHANGED << stabVars, scalerVars, serverVars, managerVars, validateVars, configVars >>

ProviderNext ==
    \/ BeginRefresh
    \/ \E n \in 0 .. 2 : \E fate \in [1 .. n -> BuildFates] : MakeBuilders(fate)
    \/ \E t \in 1 .. 2, o \in ScalerOutcomes : ScalerReturns(t, o)
    \/ CloseResults
    \/ ReceiveResult
    \/ EndCollect
    \/ SendScaleRequest
    \/ ScalerServiceStarts
    \/ ScalerServiceCompletes
    \/ \E err \in {"nil"} \cup ScaleErrors : ScaleRpcReturns(err)
    \/ SkipScaleRequest
    \/ CycleCancelled

SpecProvider == ProviderInit /\ [][ProviderNext]_vars

\* -------------------------------------------------------------- SpecServer

\* Server.Start has started its goroutines: the polling goroutine when a
\* polling interval is configured, and the HTTP server
ServerInit ==
    /\ polling \in BOOLEAN
    /\ tick = FALSE
    /\ poller = IF polling THEN "select" ELSE "none"
    /\ pollFailed = FALSE
    /\ handlers = [r \in Requests |-> "new"]
    /\ ctxDone = FALSE
    /\ main = "serving"
    /\ StabIdle
    /\ ScalerIdle
    /\ ProviderIdle
    /\ ManagerIdle
    /\ ValidateIdle
    /\ ConfigIdle

ServerFrame == UNCHANGED << stabVars, scalerVars, providerVars, managerVars, validateVars, configVars >>

\* the ticker fires; ticker.C holds one tick, further ticks are dropped
Tick ==
    /\ poller \in {"select", "refresh"}
    /\ ~tick
    /\ tick' = TRUE
    /\ UNCHANGED << polling, pollFailed, poller, handlers, ctxDone, main >>
    /\ ServerFrame

\* the polling goroutine: case <-ticker.C, RefreshMetrics is entered
PollerRefresh ==
    /\ poller = "select"
    /\ tick
    /\ tick' = FALSE
    /\ poller' = "refresh"
    /\ UNCHANGED << polling, pollFailed, handlers, ctxDone, main >>
    /\ ServerFrame

\* a polling loop that ends when a cycle returns an error
exitOnError(failed) == IF failed THEN "stopped" ELSE "select"

\* where the polling goroutine goes after RefreshMetrics returned: an error
\* is logged, and the loop goes round
afterCycle(failed) == "select"

\* the polling goroutine: RefreshMetrics returns, with an error or without
PollerRefreshReturns(failed) ==
    /\ poller = "refresh"
    /\ poller' = afterCycle(failed)
    /\ pollFailed' = failed
    /\ UNCHANGED << polling, tick, handlers, ctxDone, main >>
    /\ ServerFrame

\* the polling goroutine: case <-ctx.Done()
PollerStops ==
    /\ poller = "select"
    /\ ctxDone
    /\ poller' = "stopped"
    /\ UNCHANGED << polling, tick, pollFailed, handlers, ctxDone, main >>
    /\ ServerFrame

\* an HTTP request on "/" reaches handleRequest in its own goroutine: a
\* method other than POST is refused, a POST enters RefreshMetrics
HandleRequest(r, method) ==
    /\ main = "serving"
    /\ handlers[r] = "new"
    /\ handlers' = [handlers EXCEPT ![r] = IF method = "POST" THEN "refresh"
                                           ELSE "MethodNotAllowed"]
    /\ UNCHANGED << polling, pollFailed, tick, poller, ctxDone, main >>
    /\ ServerFrame

\* handleRequest: RefreshMetrics returns, the response is written
HandlerRefreshReturns(r, ok) ==
    /\ handlers[r] = "refresh"
    /\ handlers' = [handlers EXCEPT ![r] = IF ok THEN "ok" ELSE "InternalServerError"]
    /\ UNCHANGED << polling, pollFailed, tick, poller, ctxDone, main >>
    /\ ServerFrame

\* the context of Start is cancelled
Cancel ==
    /\ ~ctxDone
    /\ ctxDone' = TRUE
    /\ UNCHANGED << polling, pollFailed, tick, poller, handlers, main >>
    /\ ServerFrame

\* Start: ListenAndServe fails, Start returns the error
ListenFails ==
    /\ main = "serving"
    /\ \A r \in Requests : handlers[r] = "new"
    /\ main' = "failed"
    /\ UNCHANGED << polling, pollFailed, tick, poller, handlers, ctxDone >>
    /\ ServerFrame

\* Start: case <-ctx.Done(), srv.Shutdown is called and closes the listener
Shutdown ==
    /\ main = "serving"
    /\ ctxDone
    /\ main' = "shutdown"
    /\ UNCHANGED << polling, pollFailed, tick, poller, handlers, ctxDone >>
    /\ ServerFrame

\* Start: srv.Shutdown returns, the handlers having finished or
\* shutdownTimeout having passed; then wg.Wait()
ShutdownReturns(timedOut) ==
    /\ main = "shutdown"
    /\ timedOut \/ \A r \in Requests : handlers[r] # "refresh"
    /\ main' = "waiting"
    /\ UNCHANGED << polling, pollFailed, tick, poller, handlers, ctxDone >>
    /\ ServerFrame

\* Start: wg.Wait() returns once the polling goroutine is gone; Start returns
StartReturns ==
    /\ main = "waiting"
    /\ poller \in {"none", "stopped"}
    /\ main' = "returned"
    /\ UNCHANGED << polling, pollFailed, tick, poller, handlers, ctxDone >>
    /\ ServerFrame

ServerNext ==
    \/ Tick
    \/ PollerRefresh
    \/ \E failed \in BOOLEAN : PollerRefreshReturns(failed)
    \/ PollerStops
    \/ \E r \in Requests, m \in {"POST", "GET"} : HandleRequest(r, m)
    \/ \E r \in Requests, ok \in BOOLEAN : HandlerRefreshReturns(r, ok)
    \/ Cancel
    \/ ListenFails
    \/ Shutdown
    \/ \E timedOut \in BOOLEAN : ShutdownReturns(timedOut)
    \/ StartReturns

SpecServer == ServerInit /\ [][ServerNext]_vars

\* what the scheduling of Start guarantees: a goroutine that can take a step
\* takes it. The select of the polling goroutine takes a case that is ready,
\* and picks at random when both are, so that cancellation is not passed
\* over for ever; the select of Start sees the cancellation; srv.Shutdown
\* returns when shutdownTimeout has passed at the latest; wg.Wait() returns
\* when the polling goroutine is gone. Nothing bounds the time RefreshMetrics
\* takes: its return is not among the guarantees.
ServerFairness ==
    /\ WF_vars(PollerRefresh)
    /\ SF_vars(PollerStops)
    /\ WF_vars(Shutdown)
    /\ WF_vars(ShutdownReturns(TRUE))
    /\ WF_vars(StartReturns)

SpecServerLive == ServerInit /\ [][ServerNext]_vars /\ ServerFairness

\* ----------------------------------------------------- claims on the Scaler

\* the latest scale call issued an update call on the Cloud Run client
Sent == last.update.call # "none"

\* the stabilizer of the workload holds a mark made by the latest scale call
MarkRecorded ==
    \E i \in DOMAIN scalingStabilizers[workloadInfo.name] :
        /\ scalingStabilizers[workloadInfo.name][i].src = "mark"
        /\ scalingStabilizers[workloadInfo.name][i].t = clock

\* C1 as stated: every instance count scale sends to the control plane, on
\* any update path, lies within [minInstances, maxInstances] of the scaled
\* object.
C1_AsStated ==
    Sent =>
        /\ scalerConfig.minInstances <= last.update.count
        /\ last.update.count <= scalerConfig.maxInstances

\* C3 as stated: markScaleEvent is invoked if and only if an update was
\* issued and returned without error; when the read or the update fails, the
\* failure is returned and the stabilizer history is left unchanged.
C3_AsStated ==
    last.path # "none" =>
        /\ last.marked <=> (Sent /\ last.update.ok)
        /\ (last.path = "read" \/ (Sent /\ ~last.update.ok)) =>
               /\ last.status = "IOException"
               /\ scalingStabilizers[workloadInfo.name] = last.before

\* the latest scale call computed a clamped, stabilized count
Bounded == last.path = "recommend" /\ last.status # "IllegalArgumentException"

\* C7: when the clamped, stabilized count equals the current count, scale
\* issues no update call of any kind and does not mark the stabilizer.
C7_NoUpdateWhenUnchanged ==
    (Bounded /\ last.bounded = last.current) =>
        /\ ~Sent
        /\ ~last.marked
        /\ ~MarkRecorded

\* the recommendation differed from the current count, the bounded one not
C7_Witness ==
    /\ Bounded
    /\ last.unbounded # last.current
    /\ last.bounded = last.current
    /\ ~Sent
    /\ last.status = "SUCCEEDED"

\* C8: from current = 0 with unbounded >= 1 the stabilizer returns unbounded
\* whatever the scale-up window, policies and history are, and the count
\* scale arrives at is below unbounded only when it is maxInstances.
C8_ScaleUpFromZero ==
    (last.path = "recommend" /\ last.current = 0 /\ last.unbounded >= 1) =>
        /\ last.stabilized = last.unbounded
        /\ Bounded =>
              /\ last.bounded =
                     IF last.unbounded > scalerConfig.maxInstances
                     THEN scalerConfig.maxInstances
                     ELSE IF last.unbounded < scalerConfig.minInstances
                          THEN scalerConfig.minInstances
                          ELSE last.unbounded
              /\ last.bounded < last.unbounded =>
                     last.bounded = scalerConfig.maxInstances

\* a scale-up from zero under a scale-up window and policies, with an
\* observation of 0 inside the window, capped by maxInstances and sent
C8_Witness ==
    /\ last.path = "recommend"
    /\ last.current = 0
    /\ last.unbounded > scalerConfig.maxInstances
    /\ scalerConfig.behavior.up = TwoMinRules
    /\ \E i \in DOMAIN last.before :
          /\ last.before[i].rec = 0
          /\ last.before[i].t >= clock - scalerConfig.behavior.up.window
    /\ Sent
    /\ last.update.count = scalerConfig.maxInstances

\* the Scaler scales a worker pool under USE_MIN_INSTANCES
WorkerPoolFloor ==
    workloadInfo.workloadType = "WORKERPOOL" /\ staticConfig.useMinInstances

\* C13: for a worker pool under USE_MIN_INSTANCES every scale call fails
\* (IllegalArgumentException, a FAILED result), issues no update call of any
\* kind and leaves the stabilizers alone; and no worker pool is ever updated
\* through the min-instances call.
C13_WorkerPoolFloorRefused ==
    /\ (WorkerPoolFloor /\ last.path # "none") =>
          /\ last.path = "unsupported"
          /\ last.status = "IllegalArgumentException"
          /\ ~Sent
          /\ scalingStabilizers[workloadInfo.name] = <<>>
    /\ last.update.call = "updateServiceMinInstances" =>
          workloadInfo.workloadType = "SERVICE"

\* the second scale call in a row was refused
C13_Witness ==
    /\ WorkerPoolFloor
    /\ cycles = MaxCycles
    /\ last.path = "unsupported"
    /\ ~Sent

\* the latest scale call read the instance count and went on
PastRead == last.path \in {"noMetrics", "noValidTrigger", "recommend"}

\* C15: with an empty metric list scale issues an update that sets the count
\* to 0, whatever the current count and the configured minimum, without
\* touching the stabilizers, and returns SUCCEEDED once the update call has
\* returned.
C15_NoMetricsScalesToZero ==
    (PastRead /\ last.metrics = <<>>) =>
        /\ last.path = "noMetrics"
        /\ Sent
        /\ last.update.call \in {"updateServiceMinInstances",
                                 "updateServiceManualInstances",
                                 "updateWorkerPoolManualInstances"}
        /\ last.update.count = 0
        /\ last.update.ok => last.status = "SUCCEEDED"
        /\ last.status \in {"SUCCEEDED", "IOException"}
        /\ scalingStabilizers[workloadInfo.name] = last.before

C15_Witness ==
    /\ last.path = "noMetrics"
    /\ last.current = MaxInst
    /\ last.update.count = 0
    /\ last.update.ok
    /\ last.status = "SUCCEEDED"

\* every metric of the list has both targets equal to zero
AllTargetsZero(metrics) ==
    \A i \in DOMAIN metrics :
        metrics[i].targetValue = 0 /\ metrics[i].targetAverageValue = 0

\* C16: with at least one metric and every metric's target_value and
\* target_average_value equal to zero, scale returns FAILED, issues no update
\* and neither creates nor marks a stabilizer.
C16_NoValidTriggerFails ==
    (PastRead /\ last.metrics # <<>> /\ AllTargetsZero(last.metrics)) =>
        /\ last.status = "FAILED"
        /\ ~Sent
        /\ ~last.marked
        /\ scalingStabilizers[workloadInfo.name] = last.before

\* a first call with a metric whose targets are set to zero: no stabilizer
C16_Witness ==
    /\ last.path = "noValidTrigger"
    /\ \E i \in DOMAIN last.metrics :
          last.metrics[i].hasTargetValue /\ last.metrics[i].hasTargetAverageValue
    /\ AllTargetsZero(last.metrics)
    /\ last.status = "FAILED"
    /\ scalingStabilizers[workloadInfo.name] = <<>>

\* the metrics of the latest call that supply both targets
BothTargets ==
    { i \in DOMAIN last.metrics :
        /\ last.metrics[i].hasTargetValue /\ last.metrics[i].targetValue > 0
        /\ last.metrics[i].hasTargetAverageValue
        /\ last.metrics[i].targetAverageValue > 0 }

\* C17: a metric that supplies both targets recommends
\* ceil(value / target_average_value), whatever its target_value: the
\* recommendation of scale is no less than that, and equal to it when the
\* metric is the only one (200 with targets 50 and 100 gives 2 at current 1).
C17_AverageValueFirst ==
    last.path = "recommend" =>
        \A i \in BothTargets :
            /\ last.unbounded >=
                  CeilDiv(last.metrics[i].value, last.metrics[i].targetAverageValue)
            /\ Len(last.metrics) = 1 =>
                  last.unbounded =
                     CeilDiv(last.metrics[i].value, last.metrics[i].targetAverageValue)
            /\ (last.metrics = << Metric(200, TRUE, 50, TRUE, 100) >>
                    /\ last.current = 1) => last.unbounded = 2

C17_Witness ==
    /\ last.path = "recommend"
    /\ last.metrics = << Metric(200, TRUE, 50, TRUE, 100) >>
    /\ last.current = 1
    /\ last.unbounded = 2

C14_ErrorIsolation ==
    mpc \in {"collect", "returned"} =>
        /\ \A i \in Requested : taskPc[i] = "done"
        /\ \A i \in Requested :
              i <= Len(results) =>
                 results[i].status =
                    IF taskOutcome[i] = "SUCCEEDED" THEN "SUCCEEDED" ELSE "FAILED"
        /\ mpc = "returned" => Len(results) = Cardinality(Requested)

\* a request whose first entry succeeds, whose second meets a declared
\* exception and whose last throws an unchecked one
C14_Witness ==
    /\ mpc = "returned"
    /\ Cardinality(Requested) = MaxEntries
    /\ taskOutcome[1] = "SUCCEEDED"
    /\ taskOutcome[2] = "IOException"
    /\ taskOutcome[MaxEntries] = "IllegalArgumentException"
    /\ results[1].status = "SUCCEEDED"
    /\ results[2].status = "FAILED"
    /\ results[MaxEntries].status = "FAILED"

\* C36 as stated: the map of the per-target scalers is used by one thread at
\* a time: no two tasks are inside scalers.put together.
C36_AsStated == Cardinality(Putting) <= 1

\* C35 as stated: the Scaler that scaled a workload, with the stabilizer and
\* the history it holds, is the one every later cycle finds for the workload:
\* when scale returns, it is in the map of the scalers.
C35_AsStated ==
    mpc = "returned" =>
        \A i \in Requested :
            (i \in created /\ taskOutcome[i] \in {"SUCCEEDED", "FAILED"}) => i \in scalers

\* C39 as stated: scale returns one result per entry of the request, in the
\* order of the request, each under the scale target name of its entry.
C39_AsStated ==
    mpc = "returned" =>
        /\ Len(results) = Cardinality(Requested)
        /\ \A i \in Requested : results[i].name = i

\* ------------------------------------------- claims on the metric provider

\* the names of the scaled objects of the request that was sent, in order
RequestNames ==
    IF scaleRequests = <<>> THEN <<>>
    ELSE [i \in DOMAIN scaleRequests[1] |-> scaleRequests[1][i].name]

\* the scalers of a scaled object that returned without an error
Succeeded(name) ==
    { t \in 1 .. 2 : scalerOutcome[<<name, t>>] \in {"ok", "idle", "nospec"} }

\* the scalers of a scaled object that returned an error
FailedScalers(name) ==
    { t \in 1 .. 2 : scalerOutcome[<<name, t>>] \in {"err", "badtarget"} }

\* the scaled objects that produced a reading, in configuration order
ProducedNames ==
    LET names == [i \in DOMAIN kedaScaledObjects |-> kedaScaledObjects[i].name]
    IN  SelectSeq(names, LAMBDA n : Succeeded(n) # {})

\* C4: a scaled object whose MakeBuilders or GetScaledObjectState fails is
\* skipped without aborting the cycle: every trigger of every scaled object
\* was attempted, and the single scale request names exactly the scaled
\* objects that produced readings, in configuration order.
C4_SkipAndContinue ==
    pc = "done" =>
        /\ \A i \in DOMAIN kedaScaledObjects :
              \A t \in Triggers(kedaScaledObjects[i]) :
                  scalerOutcome[<<kedaScaledObjects[i].name, t>>] # "none"
        /\ Len(scaleRequests) <= 1
        /\ RequestNames = ProducedNames

\* GetScaledObjectState failed for the second object; the first and the
\* third went out, in that order
C4_Witness ==
    /\ pc = "done"
    /\ objStatus["b"] = "stateFailed"
    /\ RequestNames = << "a", "c" >>

Contributing ==
    { i \in DOMAIN last.metrics :
        \/ last.metrics[i].hasTargetAverageValue /\ last.metrics[i].targetAverageValue # 0
        \/ last.metrics[i].hasTargetValue /\ last.metrics[i].targetValue # 0 }

\* C32: the unbounded recommendation of a scale call is the largest of the
\* recommendations of the contributing triggers, those with a target other
\* than 0; the triggers that are skipped have no part in it.
C32_MaxOverTriggers ==
    last.path = "recommend" =>
        /\ Contributing # {}
        /\ last.unbounded =
               SetMax({ recommendation(last.metrics[i], last.current) : i \in Contributing })

\* two contributing triggers, the first with the larger recommendation, and a
\* skipped trigger whose value is above both
C32_Witness ==
    /\ last.path = "recommend"
    /\ Cardinality(Contributing) = 2
    /\ Len(last.metrics) = 3
    /\ last.metrics[3].value > last.unbounded
    /\ last.unbounded = recommendation(last.metrics[1], last.current)
    /\ last.unbounded > recommendation(last.metrics[2], last.current)

\* the scaled objects from which the cycle collected at least one reading
WithReadings == { n \in ObjectNames : Succeeded(n) # {} }

\* GetScaledObjectState has received every result and is about to return
StateComplete == pc = "collect" /\ chanClosed /\ resultsChan = <<>>

\* the readings the scalers of the scaled object of the loop produced
ReadingsProduced ==
    { getScalerState(t, scalerOutcome[<<CurrentObject.name, t>>]).reading :
        t \in Succeeded(CurrentObject.name) }

\* C33: what GetScaledObjectState returns depends on what the scalers
\* returned only, not on the order in which they finished: the readings are
\* those of the scalers that did not fail, one for each, and the flag is
\* true exactly when a scaler that produced a reading was active.
C33_OrderIndependent ==
    StateComplete =>
        /\ { metricAndTargetValues[i] : i \in DOMAIN metricAndTargetValues }
               = ReadingsProduced
        /\ Len(metricAndTargetValues) = Cardinality(Succeeded(CurrentObject.name))
        /\ isAnyScalerActive <=>
               \E t \in 1 .. 2 : scalerOutcome[<<CurrentObject.name, t>>] = "ok"

\* the second scaler of "a", active, finished before the first, which is not
C33_Witness ==
    /\ StateComplete
    /\ CurrentObject.name = "a"
    /\ scalerOutcome[<<"a", 1>>] = "idle"
    /\ scalerOutcome[<<"a", 2>>] = "ok"
    /\ metricAndTargetValues =
           << [trigger |-> 2, blank |-> FALSE], [trigger |-> 1, blank |-> FALSE] >>
    /\ isAnyScalerActive

\* C21: a cycle issues at most one Scale call; a cycle in which no scaled
\* object produced a reading issues none and RefreshMetrics returns nil.
C21_AtMostOneScale ==
    /\ Len(scaleRequests) <= 1
    /\ (pc = "done" /\ WithReadings = {}) =>
           /\ scaleRequests = <<>>
           /\ rpc = "none"
           /\ refreshResult = "nil"

\* every scaler of every scaled object failed, and the cycle returned
C21_Witness ==
    /\ pc = "done"
    /\ WithReadings = {}
    /\ \A n \in ObjectNames : FailedScalers(n) # {}
    /\ refreshResult = "nil"

\* C22: RefreshMetrics returns an error exactly when Scale was called and
\* returned an error, and it returns that error; scaled objects that fail
\* never make the cycle return an error on their own.
C22_ErrorOnlyFromScale ==
    pc = "done" =>
        /\ (refreshResult # "nil") <=>
               (Len(scaleRequests) = 1 /\ scaleErr \in ScaleErrors)
        /\ (refreshResult # "nil") => refreshResult = scaleErr
        /\ (scaleErr \in {"none", "nil"}) => refreshResult = "nil"

\* Scale failed after two scaled objects had failed: the error of Scale came
\* back, not theirs
C22_Witness ==
    /\ pc = "done"
    /\ objStatus["a"] = "buildFailed"
    /\ objStatus["b"] = "stateFailed"
    /\ objStatus["c"] = "ok"
    /\ scaleErr = "Unavailable"
    /\ refreshResult = "Unavailable"

\* the triggers of a scaled object whose factory returned an error
Dropped(name) ==
    { t \in 1 .. 2 : scalerOutcome[<<name, t>>] \in BuildFates \ {"built"} }

\* MakeBuilders has returned for the scaled object at index i
BuildersMade(i) == objIndex > i \/ (objIndex = i /\ pc = "collect")

\* C23: MakeBuilders drops exactly the triggers whose auth resolution or
\* scaler construction fails, an unknown trigger type included, and returns
\* the scalers of all the others with a nil error; it returns an error if and
\* only if no scaler could be built for the scaled object.
C23_MakeBuilders ==
    \A i \in DOMAIN kedaScaledObjects :
        LET obj == kedaScaledObjects[i]
        IN  /\ (pc = "collect" /\ objIndex = i) =>
                   /\ builders = SortedSeq(Triggers(obj) \ Dropped(obj.name))
                   /\ builders # <<>>
            /\ BuildersMade(i) =>
                   ((objStatus[obj.name] = "buildFailed")
                        <=> (Dropped(obj.name) = Triggers(obj)))

\* the first trigger of "a" has an unknown type, the second was built and is
\* the only builder returned; both triggers of "c" were dropped later, one
\* for its auth and one for its construction
C23_Witness ==
    /\ scalerOutcome[<<"a", 1>>] = "noScaler"
    /\ scalerOutcome[<<"a", 2>>] = "ok"
    /\ objStatus["a"] = "ok"
    /\ scalerOutcome[<<"c", 1>>] = "authFailed"
    /\ scalerOutcome[<<"c", 2>>] = "closed"
    /\ objStatus["c"] = "buildFailed"

\* every scaler built for the scaled object failed, so no reading was collected
AllScalersFailed(name) == FailedScalers(name) # {} /\ Succeeded(name) = {}

\* the entries of the scale request of the cycle
RequestEntries ==
    IF scaleRequests = <<>> THEN {}
    ELSE { scaleRequests[1][i] : i \in DOMAIN scaleRequests[1] }

\* C24: when every scaler of a scaled object fails, so that no reading is
\* collected, GetScaledObjectState fails and the scaled object is left out of
\* the scale request of the cycle, while the other scaled objects are
\* processed as usual: each one with readings is in the request.
C24_AllScalersFail ==
    pc = "done" =>
        \A n \in ObjectNames :
            AllScalersFailed(n) =>
                /\ objStatus[n] = "stateFailed"
                /\ \A e \in RequestEntries : e.name # n
                /\ \A m \in WithReadings :
                       /\ objStatus[m] = "ok"
                       /\ \E e \in RequestEntries : e.name = m

\* both scalers of "a" failed; "b" and "c" went out
C24_Witness ==
    /\ pc = "done"
    /\ FailedScalers("a") = {1, 2}
    /\ objStatus["a"] = "stateFailed"
    /\ { e.name : e \in RequestEntries } = {"b", "c"}

\* the scalers of a scaled object that returned a metric and a target
WithMetric(name) ==
    { t \in 1 .. 2 : scalerOutcome[<<name, t>>] \in {"ok", "idle"} }

\* C34 as stated: a trigger whose scaler returns an empty metric-spec list is
\* skipped: the entry of its scaled object in the scale request holds the
\* readings of the scalers that returned a metric, and nothing for it.
C34_AsStated ==
    \A e \in RequestEntries : Len(e.metrics) = Cardinality(WithMetric(e.name))

\* C37: every entry of every scale request RefreshMetrics hands to Scale
\* holds at least one metric, so that the request never takes Scaler.scale
\* down its branch for an empty metric list.
C37_NoEmptyEntry ==
    \A r \in DOMAIN scaleRequests :
        /\ scaleRequests[r] # <<>>
        /\ \A i \in DOMAIN scaleRequests[r] : Len(scaleRequests[r][i].metrics) >= 1

\* a cycle in which no scaler of "a" gave a reading: "a" is not in the
\* request, and the entries that are hold their readings
C37_Witness ==
    /\ Len(scaleRequests) = 1
    /\ AllScalersFailed("a")
    /\ { e.name : e \in RequestEntries } = {"b", "c"}
    /\ \E e \in RequestEntries : e.name = "c" /\ Len(e.metrics) = 1

\* what is left to do in GetScaledObjectState: a send and a receive for each
\* scaler still running, a receive for each result in the channel, the close
StateMeasure ==
    2 * Cardinality(running) + Len(resultsChan) + (IF chanClosed THEN 0 ELSE 1)

\* C38: GetScaledObjectState ends once every scaler has returned. A scaler
\* that returns finds a free place in the channel; every builder sends one
\* result; the channel is closed only when all have sent; with no scaler left
\* the function always has a step to take, each of its steps reduces what is
\* left to do, and it returns with every result received and no task running.
C38_StateTerminates ==
    /\ [](pc = "collect" =>
            /\ \A t \in running : ENABLED ScalerReturns(t, "ok")
            /\ Len(resultsChan) + Cardinality(running) <= Len(builders)
            /\ chanClosed => running = {}
            /\ running = {} => ENABLED (CloseResults \/ ReceiveResult \/ EndCollect)
            /\ \A i \in DOMAIN builders :
                   builders[i] \notin running
                       => scalerOutcome[<<CurrentObject.name, builders[i]>>] \in ScalerOutcomes)
    /\ [](pc # "collect" => (running = {} /\ resultsChan = <<>>))
    /\ [][(pc = "collect" /\ pc' = "collect"
              /\ << running, resultsChan, chanClosed >>' # << running, resultsChan, chanClosed >>)
             => StateMeasure' < StateMeasure]_vars
    /\ [][(pc = "collect" /\ pc' # "collect") => StateMeasure = 0]_vars

\* both results of "a" are in the channel, which is full and not yet closed
C38_Witness ==
    /\ pc = "collect"
    /\ Len(builders) = 2
    /\ running = {}
    /\ Len(resultsChan) = 2
    /\ ~chanClosed

\* the scalers of the cycle that MakeBuilders returned in a builder
BuiltScalers == { k \in ScalerKeys : scalerOutcome[k] \in ScalerOutcomes }

\* the scalers of the cycle on which Close was called
ClosedScalers == { k \in ScalerKeys : scalerOutcome[k] = "closed" }

\* C28 as stated: once the context of a cycle in flight is cancelled, the
\* readings of that cycle lead to no control-plane update and no stabilizer
\* is touched: the scaler service does not complete the request of the cycle.
C28_AsStated ==
    (cancelledAt \notin {"none", "handled"}) => rpc # "handled"

\* C29 as stated: every scaler built during a cycle has been closed when the
\* cycle ends, whether it ends with nil or with an error.
C29_AsStated ==
    pc = "done" => BuiltScalers \subseteq ClosedScalers

\* ------------------------------------------------------ claims on the server

\* the executions of RefreshMetrics in progress
InProgress ==
    (IF poller = "refresh" THEN 1 ELSE 0)
        + Cardinality({ r \in Requests : handlers[r] = "refresh" })

\* C6 as stated: cycles are serialized; at any time at most one execution of
\* RefreshMetrics is in progress, whether started by the polling ticker or
\* by a POST to the HTTP endpoint.
C6_AsStated == InProgress <= 1

\* C25 as stated: a tick that arrives while a cycle of the polling goroutine
\* is running is dropped: no tick is kept for the time after the cycle.
C25_AsStated == (poller = "refresh") => ~tick

\* C26: the polling loop never ends on the error of a cycle: after a cycle
\* that returned an error the goroutine is back at its select, a tick that
\* waits there starts the next cycle unless the context is cancelled, and
\* the loop ends at its select on the cancelled context only.
C26_LoopSurvivesErrors ==
    /\ [][(poller = "refresh" /\ poller' # "refresh") => poller' = "select"]_vars
    /\ [][(poller # "stopped" /\ poller' = "stopped")
              => (poller = "select" /\ ctxDone)]_vars
    /\ ((pollFailed /\ poller = "select" /\ tick) ~> (poller = "refresh" \/ ctxDone))

\* a cycle returned an error, and the next tick has started another cycle
C26_Witness ==
    /\ pollFailed
    /\ poller = "refresh"
    /\ ~ctxDone

\* C27 as stated: once the context is cancelled, Start returns, whatever a
\* cycle in flight does. (It does not: Start stays in wg.Wait() for as long
\* as the polling goroutine stays inside RefreshMetrics.)
C27_AsStated == ctxDone ~> (main \in {"returned", "failed"})

\* ------------------------------------------------ claims on the configuration

\* C30 as stated: every scaled object of a configuration ValidateConfig
\* accepts has at least one trigger, and its replica counts satisfy
\* 0 <= minReplicaCount <= maxReplicaCount.
C30_AsStated ==
    vResult = NoError =>
        \A i \in DOMAIN vConfig.scaledObjects :
            LET so == vConfig.scaledObjects[i]
            IN  /\ Len(so.triggers) >= 1
                /\ 0 <= so.minReplicaCount
                /\ so.minReplicaCount <= so.maxReplicaCount

\* the min_instances and max_instances the scaler stage reads from an entry:
\* the getters of a message without Advanced or ScalerConfig give 0
EntryMinInstances == IF cEntry.advanced = Nil THEN 0 ELSE cEntry.advanced[1].minInstances
EntryMaxInstances == IF cEntry.advanced = Nil THEN 0 ELSE cEntry.advanced[1].maxInstances

\* C40: the entry of a scaled object in a scale request carries the
\* minReplicaCount and maxReplicaCount of the configuration as min_instances
\* and max_instances, with 0 and 100 for those the configuration leaves out.
C40_ConfiguredBounds ==
    cStage = "sent" =>
        /\ EntryMinInstances = (IF cRead.minReplicaCount = Nil THEN 0 ELSE cRead.minReplicaCount[1])
        /\ EntryMaxInstances = (IF cRead.maxReplicaCount = Nil THEN 100 ELSE cRead.maxReplicaCount[1])

\* a scaled object with no replica counts and no Advanced is sent with 0
\* and 100
C40_Witness ==
    /\ cStage = "sent"
    /\ cRead.minReplicaCount = Nil
    /\ cRead.maxReplicaCount = Nil
    /\ cRead.advanced = "nil"
    /\ EntryMinInstances = 0
    /\ EntryMaxInstances = 100

\* ------------------------------------------------- claims on the stabilizer

\* the latest call was a scale-down query
DownQuery == sRes.kind = "query" /\ sRes.unbounded < sRes.current

\* floor(prev * (1 - v/100))
PercentFloor(prev, v) == (prev * (100 - v)) \div 100

\* C2: getStabilizedRecommendation never moves against the requested
\* direction: asked to scale up (unbounded > current) it returns at least
\* current, asked to scale down (unbounded < current) at most current.
C2_DirectionRespect ==
    sRes.kind = "query" =>
        /\ (sRes.unbounded > sRes.current => sRes.out >= sRes.current)
        /\ (sRes.unbounded < sRes.current => sRes.out <= sRes.current)

\* a scale-down query whose window holds a recommendation above current
C2_Witness ==
    /\ DownQuery
    /\ sBehavior.down.window > 0
    /\ sBehavior.down.select # "Disabled"
    /\ \E i \in DOMAIN sRes.before :
          /\ sRes.before[i].t >= sRes.now - sBehavior.down.window
          /\ sRes.before[i].rec > sRes.current
    /\ sRes.out = sRes.current

\* an observation of the history that lies in the scale-down window and
\* recommends at least the current count
HeldByWindow ==
    \E i \in DOMAIN sRes.before :
        /\ sRes.before[i].t >= sRes.now - sBehavior.down.window
        /\ sRes.before[i].rec >= sRes.current

\* C9 as stated: for every scale-down window W, a scale-down query whose
\* history holds an observation with t >= now - W and rec >= current returns
\* exactly current.
C9_AsStated == (DownQuery /\ HeldByWindow) => sRes.out = sRes.current

\* C9: window freeze, for a configured window (W >= 1): a scale-down query
\* whose history holds an observation with t >= now - W and rec >= current
\* returns exactly current. (With W = 0 there is no window and no hold.)
C9_WindowFreeze ==
    (DownQuery /\ sBehavior.down.window >= 1 /\ HeldByWindow) =>
        sRes.out = sRes.current

\* the window alone holds a scale-down: no policy is configured, the
\* observation is exactly W old
C9_Witness ==
    /\ DownQuery
    /\ sBehavior.down = WindowRules
    /\ \E i \in DOMAIN sRes.before :
          /\ sRes.before[i].t = sRes.now - sBehavior.down.window
          /\ sRes.before[i].rec >= sRes.current
    /\ sRes.out = sRes.current

\* C10 as stated: for every Percent(v, p) scale-down policy and every
\* observation (t0, prev, rec) with now - t0 <= p, a scale-down query
\* returns at least floor(prev * (1 - v/100)).
C10_AsStated ==
    DownQuery =>
        \A k \in DOMAIN sBehavior.down.policies :
            LET pol == sBehavior.down.policies[k]
            IN  pol.kind = "Percent" =>
                    \A i \in DOMAIN sRes.before :
                        sRes.now - sRes.before[i].t <= pol.period =>
                            sRes.out >= PercentFloor(sRes.before[i].prev, pol.value)

\* C10: rate-limit bound. For a Percent(v, p) scale-down policy that decides
\* the rate bound (it is the only policy, or select is Min) and every
\* observation (t0, prev, rec) less than p old (now - t0 < p), a scale-down
\* query returns at least min(current, floor(prev * (1 - v/100))).
C10_RateLimitBound ==
    DownQuery =>
        \A k \in DOMAIN sBehavior.down.policies :
            LET pol == sBehavior.down.policies[k]
            IN  (/\ pol.kind = "Percent"
                 /\ \/ Len(sBehavior.down.policies) = 1
                    \/ sBehavior.down.select = "Min") =>
                    \A i \in DOMAIN sRes.before :
                        sRes.now - sRes.before[i].t < pol.period =>
                            sRes.out >= Min2(sRes.current,
                                             PercentFloor(sRes.before[i].prev, pol.value))

\* the Percent policy stops a scale-down above what was asked for, on the
\* strength of an earlier observation
C10_Witness ==
    /\ DownQuery
    /\ sBehavior.down = PercentRules
    /\ \E i \in DOMAIN sRes.before :
          /\ sRes.now - sRes.before[i].t < 2
          /\ sRes.before[i].prev > sRes.current
          /\ sRes.out = PercentFloor(sRes.before[i].prev, 50)
    /\ sRes.out > sRes.unbounded

\* the latest call was a scale-up query
UpQuery == sRes.kind = "query" /\ sRes.unbounded > sRes.current

\* C19 as stated: under select = Disabled a direction is frozen for any
\* history and time: a scale-up query under scale_up.select = Disabled returns
\* current, and so does a scale-down query under scale_down.select = Disabled.
C19_AsStated ==
    /\ (UpQuery /\ sBehavior.up.select = "Disabled") => sRes.out = sRes.current
    /\ (DownQuery /\ sBehavior.down.select = "Disabled") => sRes.out = sRes.current

\* C19: under select = Disabled a direction is frozen for any history and
\* time, except for the scale-up from zero: a scale-up query from a current
\* count above 0 under scale_up.select = Disabled returns current, and so does
\* a scale-down query under scale_down.select = Disabled.
C19_DisabledFreezes ==
    /\ (UpQuery /\ sRes.current > 0 /\ sBehavior.up.select = "Disabled")
           => sRes.out = sRes.current
    /\ (DownQuery /\ sBehavior.down.select = "Disabled") => sRes.out = sRes.current

\* a scale-down that neither the window nor the policy of the disabled
\* direction would hold at current
C19_Witness ==
    /\ DownQuery
    /\ sBehavior.down = DisabledRules
    /\ \A i \in DOMAIN sEntries :
          sEntries[i].t >= sRes.now - DisabledRules.window => sEntries[i].rec < sRes.current
    /\ sRes.out = sRes.current

\* the candidates of the policies of a direction at the latest query
Candidates(dir, rules) ==
    { policyCandidate(dir, rules.policies[i], sEntries, sRes.now, sRes.current) :
        i \in DOMAIN rules.policies }

\* the latest query, in direction dir under rules, was decided by policies
Limited(dir, rules) ==
    /\ IF dir = "up" THEN UpQuery /\ sRes.current > 0 ELSE DownQuery
    /\ Len(rules.policies) > 1
    /\ rules.select # "Disabled"

\* C20: with several policies in a direction, select = Max and an unset
\* select (which the provider sends as Max) apply the most permissive
\* candidate, the largest for scale-up and the smallest for scale-down, and
\* select = Min the least permissive one; the result is that candidate, kept
\* between the current count and what was asked for and within the window.
C20_SelectPolicy ==
    /\ toPbSelectPolicy("nil") = "Max" /\ toPbSelectPolicy("Max") = "Max"
    /\ toPbSelectPolicy("Min") = "Min"
    /\ Limited("up", sBehavior.up) =>
          LET c == Candidates("up", sBehavior.up)
              sel == IF sBehavior.up.select = "Min" THEN SetMin(c) ELSE SetMax(c)
              w == windowBound("up", sBehavior.up, sEntries, sRes.now,
                               sRes.current, sRes.unbounded)
          IN  sRes.out = Max2(sRes.current, Min2(sRes.unbounded, Min2(sel, w)))
    /\ Limited("down", sBehavior.down) =>
          LET c == Candidates("down", sBehavior.down)
              sel == IF sBehavior.down.select = "Min" THEN SetMax(c) ELSE SetMin(c)
              w == windowBound("down", sBehavior.down, sEntries, sRes.now,
                               sRes.current, sRes.unbounded)
          IN  sRes.out = Min2(sRes.current, Max2(sRes.unbounded, Max2(sel, w)))

\* a scale-up under select = Min whose candidates differ: the smaller is
\* the result, below what was asked for
C20_Witness ==
    /\ Limited("up", sBehavior.up)
    /\ sBehavior.up.select = "Min"
    /\ Cardinality(Candidates("up", sBehavior.up)) > 1
    /\ sRes.out = SetMin(Candidates("up", sBehavior.up))
    /\ sRes.out < sRes.unbounded
    /\ sRes.out > sRes.current

\* the scale-up rate bound of the latest query: the candidates of the
\* scale-up policies combined by the select policy; none without a policy
UpRateLimits ==
    LET c == Candidates("up", sBehavior.up)
    IN  IF c = {} THEN {}
        ELSE IF sBehavior.up.select = "Min" THEN {SetMin(c)} ELSE {SetMax(c)}

\* the scale-up window bound of the latest query: the smallest recommendation
\* observed inside the window, the current count when the window is empty;
\* none without a window
UpWindowLimits ==
    LET recs == { sEntries[i].rec : i \in inWindow(sEntries, sRes.now, sBehavior.up.window) }
    IN  IF sBehavior.up.window = 0 THEN {}
        ELSE IF recs = {} THEN {sRes.current} ELSE {SetMin(recs)}

\* C31 as stated: for a scale-up query from a current count above 0, the
\* result exceeds neither the scale-up rate bound, nor the scale-up window
\* bound, nor unbounded.
C31_AsStated ==
    (UpQuery /\ sRes.current > 0) =>
        /\ \A b \in UpRateLimits \cup UpWindowLimits : sRes.out <= b
        /\ sRes.out <= sRes.unbounded

\* C31: for a scale-up query from a current count above 0, the result never
\* exceeds unbounded, and it exceeds the scale-up rate bound or the scale-up
\* window bound only where that bound lies below the current count, in which
\* case the result is the current count.
C31_ScaleUpBounds ==
    (UpQuery /\ sRes.current > 0) =>
        /\ \A b \in UpRateLimits \cup UpWindowLimits :
               sRes.out <= Max2(sRes.current, b)
        /\ sRes.out <= sRes.unbounded

\* a scale-up held below what was asked for by the window, above current
C31_Witness ==
    /\ UpQuery
    /\ sRes.current > 0
    /\ sBehavior.up.select # "Disabled"
    /\ \E b \in UpWindowLimits : sRes.out = b /\ b > sRes.current
    /\ sRes.out < sRes.unbounded

\* ------------------------------------------------- claims on SpecScenario

\* the calls of a log without their results
Calls(log) ==
    [i \in DOMAIN log |-> <<log[i].kind, log[i].t, log[i].current, log[i].arg>>]

Outs(log) == [i \in DOMAIN log |-> log[i].out]

PercentCalls ==
    << <<"query", 0, 100, 10>>, <<"mark", 0, 100, 50>>,
       <<"query", 59, 50, 10>>, <<"query", 60, 50, 10>> >>

\* a mark of the log made less than one period of the Percent policy before
\* the latest call
RecentMarks ==
    { i \in DOMAIN sLog :
        /\ sLog[i].kind = "mark"
        /\ sLog[Len(sLog)].t - sLog[i].t < PercentScenario.down.policies[1].period }

\* C11: under one Percent(50, 60 s) scale-down policy and no window, the
\* calls stabilize(100, 10) at 0, mark(0, 100, 50), stabilize(50, 10) at 59 s
\* and at 60 s return 50, 50 and 25; and in general a scale-down query made
\* less than one period after a mark(t, prev, new) returns no less than the
\* smaller of the current count and half of prev.
C11_PercentScenario ==
    sBehavior = PercentScenario =>
      /\ Calls(sLog) = PercentCalls => Outs(sLog) = <<50, 50, 50, 25>>
      /\ \A n \in 1 .. Len(PercentCalls) :
            (Len(sLog) = n /\ Calls(sLog) = SubSeq(PercentCalls, 1, n))
                => Outs(sLog) = SubSeq(<<50, 50, 50, 25>>, 1, n)
      /\ (sLog # <<>> /\ sLog[Len(sLog)].kind = "query"
              /\ sLog[Len(sLog)].arg < sLog[Len(sLog)].current)
            => \A i \in RecentMarks :
                 sLog[Len(sLog)].out >=
                    Min2(sLog[Len(sLog)].current, sLog[i].current \div 2)

C11_Witness ==
    /\ sBehavior = PercentScenario
    /\ Calls(sLog) = PercentCalls
    /\ sLog[4].out = 25

WindowCalls ==
    << <<"query", 60, 100, 90>>, <<"query", 120, 100, 90>>,
       <<"query", 180, 100, 90>>, <<"query", 240, 100, 90>>,
       <<"query", 301, 100, 90>> >>

\* C12: under a scale-down window of 300 s, a stabilizer created at 100 at
\* time 0 and asked for 90 at 60, 120, 180 and 240 s, with no update in
\* between, returns 100 each time, and returns 90 at 301 s.
C12_WindowScenario ==
    sBehavior = WindowScenario =>
      \A n \in 1 .. Len(WindowCalls) :
         (Len(sLog) = n /\ Calls(sLog) = SubSeq(WindowCalls, 1, n))
             => Outs(sLog) = SubSeq(<<100, 100, 100, 100, 90>>, 1, n)

C12_Witness ==
    /\ sBehavior = WindowScenario
    /\ Calls(sLog) = WindowCalls
    /\ sLog[5].out = 90

====
